---- MODULE Spec2Model ----
(***************************************************************************)
(* The chart-data engine of aws-cost-anomaly-slack-reactor                 *)
(* (reactor/graph.go): CostGraph (the series store and its reduction to    *)
(* at most maxSeries drawn series) and graphTicker (the date axis with its *)
(* cached sorted dates and its decimated tick labels).                     *)
(*                                                                         *)
(* Modelling decisions:                                                    *)
(*  - a time.Time is the number of a day of 2024 (the callers parse         *)
(*    "2006-01-02" dates, all UTC), Before is <, and Format("2006-01-02")  *)
(*    is FormatDate;                                                       *)
(*  - a cost (float64) is an integer amount, added exactly;                *)
(*  - a Go string is the sequence of its byte values and < on strings is   *)
(*    StrLess, the byte-wise lexicographic order;                          *)
(*  - a Go map is a function; the order in which range enumerates it is    *)
(*    an input of the operation (MapOrder).                                *)
(***************************************************************************)
EXTENDS Integers, Sequences, FiniteSets, TLC

\* ---------------------------------------------------------------- bounds
MaxAdds == 3        \* Spec: AddDataPoint calls on a new graph
MaxExtra == 1       \* SpecReduce: AddDataPoint calls after the load
MaxBase == 12       \* SpecReduce: labels loaded before the first step
MaxDays == 30       \* SpecTicker: days recorded before the first step
MaxTickAdds == 2    \* SpecTicker: AddDate calls after the load
MaxIns == 2         \* SpecOrder: insertions made into both graphs
MaxColorIndex == 12 \* the bar positions for which BarColor is compared
MaxCalls == 1       \* SpecConc: AddDataPoint calls of each producer
MaxCauses == 2      \* SpecGenerate: root causes of the anomaly
MaxPages == 2       \* SpecGenerate: pages of one query
MaxLookups == 3     \* SpecAccount: describeAccount calls in all
MaxSpan == 33       \* SpecPeriods: the days from startAt to endAt
MaxRequests == 3    \* SpecPaginator: API requests of one paginator
MaxDirect == 2      \* SpecPaginator: NextPage calls made after the loop
MaxWindows == 3     \* SpecService: windows fetched by one costExplorerService
MaxGets == 3        \* SpecService: GetAnomaly calls
MaxGraphs == 1      \* SpecHandler: graphs of one anomaly
MaxFeedbacks == 2   \* SpecFeedback: interactive requests
MaxNow == 4         \* SpecAccount: the last clock step

\* ------------------------------------------------------- program constants
maxSeries == 10
maxLabels == 8
Hour == 3           \* 1 * time.Hour, in clock steps of 20 minutes
WindowDays == 28    \* the days of one window of GetAnomalies

\* ---------------------------------------------------------------- strings
\* "Others"
Others == <<79, 116, 104, 101, 114, 115>>

RECURSIVE StrLess(_, _)
\* Go's s < t on strings: byte-wise lexicographic, a proper prefix is smaller.
StrLess(s, t) ==
    IF t = <<>> THEN FALSE
    ELSE IF s = <<>> THEN TRUE
    ELSE IF Head(s) # Head(t) THEN Head(s) < Head(t)
    ELSE StrLess(Tail(s), Tail(t))

\* the lengths of the months of 2024
MonthDays == <<31, 29, 31, 30, 31, 30, 31, 31, 30, 31, 30, 31>>

\* the number of days of 2024 before month m
DaysBefore ==
    LET before[m \in 1..12] == IF m = 1 THEN 0 ELSE before[m - 1] + MonthDays[m - 1]
    IN  before

\* the two decimal digits of n
TwoDigits(n) == <<48 + (n \div 10), 48 + (n % 10)>>

\* date.Format("2006-01-02") for day number date of 2024: "2024-MM-DD"
FormatDate(date) ==
    LET m == CHOOSE k \in 1..12 :
                 DaysBefore[k] < date /\ date <= DaysBefore[k] + MonthDays[k]
    IN  <<50, 48, 50, 52, 45>> \o TwoDigits(m) \o <<45>>
            \o TwoDigits(date - DaysBefore[m])

\* F applied to the value of e, which is computed once
With(e, F(_)) == CHOOSE y \in {F(x) : x \in {e}} : TRUE

\* ------------------------------------------------------------- sort.Slice
\* The position at which x enters an already sorted slice.
InsertSorted(sorted, x, Less(_, _)) ==
    LET p == Cardinality({i \in 1..Len(sorted) : ~Less(x, sorted[i])})
    IN  SubSeq(sorted, 1, p) \o <<x>> \o SubSeq(sorted, p + 1, Len(sorted))

\* sort.Slice(s, less): the elements of s ordered by less.
SortSlice(slice, Less(_, _)) ==
    With(slice, LAMBDA s :
        LET ins[k \in 0..Len(s)] ==
                IF k = 0 THEN <<>>
                ELSE With(ins[k - 1], LAMBDA sorted : InsertSorted(sorted, s[k], Less))
        IN  ins[Len(s)])

Reverse(s) == [i \in 1..Len(s) |-> s[Len(s) + 1 - i]]

Range(s) == {s[i] : i \in 1..Len(s)}

\* Go leaves the order in which range enumerates a map open: the model
\* tries one enumeration of the keys and its reverse.
MapOrder == {"fwd", "rev"}

RECURSIVE Enumerate(_)
Enumerate(S) ==
    IF S = {} THEN <<>>
    ELSE With(CHOOSE x \in S : TRUE, LAMBDA m : <<m>> \o Enumerate(S \ {m}))

\* for key := range m, over the key set S of m
RangeKeys(S, order) ==
    IF order = "fwd" THEN Enumerate(S) ELSE Reverse(Enumerate(S))

\* ------------------------------------------------------------ graphTicker
NilCache == [isNil |-> TRUE, elems |-> <<>>]

NewTicker == [dates |-> {}, cache |-> NilCache]

\* AddDate that leaves the cache as it is
AddDateKeepCache(t, date) == [t EXCEPT !.dates = t.dates \cup {date}]

\* graphTicker.AddDate
AddDate(t, date) == [dates |-> t.dates \cup {date}, cache |-> NilCache]

\* Dates without the sort.Slice call
DatesUnsorted(t, order) ==
    IF ~t.cache.isNil
    THEN [ret |-> t.cache.elems, ticker |-> t]
    ELSE With(RangeKeys(t.dates, order), LAMBDA dates :
                [ret |-> dates,
                 ticker |-> [t EXCEPT !.cache = [isNil |-> FALSE, elems |-> dates]]])

\* graphTicker.Dates: the returned slice and the ticker afterwards
Dates(t, order) ==
    IF ~t.cache.isNil
    THEN [ret |-> t.cache.elems, ticker |-> t]
    ELSE With(SortSlice(RangeKeys(t.dates, order), LAMBDA a, b : a < b),
              LAMBDA dates :
                [ret |-> dates,
                 ticker |-> [t EXCEPT !.cache = [isNil |-> FALSE, elems |-> dates]]])

\* graphTicker.Len
TickerLen(t, order) == Len(Dates(t, order).ret)

\* -------------------------------------------------------------- CostGraph
EmptyMap == [x \in {} |-> 0]

NewCostGraph == [dataPoints |-> EmptyMap, ticker |-> NewTicker]

\* m[k] = v on a Go map
MapSet(m, k, v) == [x \in (DOMAIN m) \cup {k} |-> IF x = k THEN v ELSE m[x]]

\* AddDataPoint with += in place of = (costs of one identity accumulate)
AddDataPointAccumulate(g, t, cost, legend) ==
    LET dp == IF legend \in DOMAIN g.dataPoints
              THEN g.dataPoints[legend] ELSE EmptyMap
        c  == IF t \in DOMAIN dp THEN dp[t] + cost ELSE cost
    IN  [dataPoints |-> MapSet(g.dataPoints, legend, MapSet(dp, t, c)),
         ticker |-> AddDate(g.ticker, t)]

\* CostGraph.AddDataPoint
AddDataPoint(g, t, cost, legend) ==
    LET dp == IF legend \in DOMAIN g.dataPoints
              THEN g.dataPoints[legend] ELSE EmptyMap
    IN  [dataPoints |-> MapSet(g.dataPoints, legend, MapSet(dp, t, cost)),
         ticker |-> AddDate(g.ticker, t)]

graphColors ==
    << <<51, 153, 255, 255>>, <<255, 102, 102, 255>>, <<46, 204, 113, 255>>,
       <<138, 43, 226, 255>>, <<255, 179, 0, 255>>, <<51, 12, 180, 255>>,
       <<0, 128, 0, 255>>, <<255, 102, 0, 255>>, <<126, 0, 185, 255>>,
       <<140, 81, 10, 255>> >>

fallbackColor == <<0, 128, 255, 255>>

RECURSIVE SeqSum(_)
\* total += v over a slice, in slice order
SeqSum(s) == IF s = <<>> THEN 0 ELSE Head(s) + SeqSum(Tail(s))

\* DenseValues that skips the dates a series lacks instead of filling a 0
DenseValuesSkip(dp, dates) ==
    LET have == SelectSeq(dates, LAMBDA date : date \in DOMAIN dp)
    IN  [i \in 1..Len(have) |-> dp[have[i]]]

\* The plotter.Values appended for one series dp over the axis dates:
\* dp[date] for every date, after dp[date] = 0 for the dates dp lacks.
DenseValues(dp, dates) ==
    [i \in 1..Len(dates) |-> IF dates[i] \in DOMAIN dp THEN dp[dates[i]] ELSE 0]

\* FillDataPoints with dp[date] = 0 executed after the append for every
\* axis date, without the test
FillDataPointsOverwrite(dp, dates) ==
    [date \in (DOMAIN dp) \cup Range(dates) |->
        IF date \in Range(dates) THEN 0 ELSE dp[date]]

\* the stored series dp after the loop over the axis dates:
\* if _, ok := dp[date]; !ok { dp[date] = 0 }
FillDataPoints(dp, dates) ==
    [date \in (DOMAIN dp) \cup Range(dates) |->
        IF date \in DOMAIN dp THEN dp[date] ELSE 0]

\* WriteTo, "fill data points": every stored series gets a 0 at each axis
\* date it lacks (written into the store), and its dense vector and total
\* are built in axis order.
Materialize(g, order) ==
    With(Dates(g.ticker, order), LAMBDA d :
        LET dates    == d.ret
            fill(dp) == FillDataPoints(dp, dates)
        IN  With([l \in DOMAIN g.dataPoints |-> DenseValues(g.dataPoints[l], dates)],
                 LAMBDA values :
                   [legends    |-> RangeKeys(DOMAIN g.dataPoints, order),
                    dataPoints |-> values,
                    totals     |-> [l \in DOMAIN values |-> SeqSum(values[l])],
                    g          |-> [dataPoints |->
                                       [l \in DOMAIN g.dataPoints |->
                                           fill(g.dataPoints[l])],
                                    ticker |-> IF DOMAIN g.dataPoints = {}
                                               THEN g.ticker ELSE d.ticker]]))

\* LegendLess without the tie-break on the label
LegendLessNoTie(totals, a, b) == totals[a] > totals[b]

\* WriteTo, "sort by total cost": the less function given to sort.Slice
LegendLess(totals, a, b) ==
    IF totals[a] = totals[b] THEN StrLess(a, b) ELSE totals[a] > totals[b]

\* SortLegends without the sort.Slice call
SortLegendsNone(legends, totals) == legends

SortLegends(legends, totals) ==
    SortSlice(legends, LAMBDA a, b : LegendLess(totals, a, b))

\* SumAt with = in place of += (the last series wins)
SumAtAssign(S, dataPoints, i) ==
    IF S = {} THEN 0 ELSE dataPoints[CHOOSE x \in S : TRUE][i]

RECURSIVE SumAt(_, _, _)
\* others[i] += v over the series of the labels in S
SumAt(S, dataPoints, i) ==
    IF S = {} THEN 0
    ELSE LET l == CHOOSE x \in S : TRUE
         IN  dataPoints[l][i] + SumAt(S \ {l}, dataPoints, i)

\* TopLegends that keeps maxSeries labels
TopLegendsKeepMax(legends) == SubSeq(legends, 1, maxSeries)

\* legends = legends[:maxSeries-1]
TopLegends(legends) == SubSeq(legends, 1, maxSeries - 1)

\* isTop(ll), over the shortened legends
IsTop(top, ll) == \E i \in 1..Len(top) : top[i] = ll

\* WriteTo, "if too many series, combine into others"; n is g.ticker.Len()
Reduce(legends, dataPoints, n) ==
    IF Cardinality(DOMAIN dataPoints) > maxSeries
    THEN With(TopLegends(legends), LAMBDA top :
            LET rest   == {l \in DOMAIN dataPoints : ~IsTop(top, l)}
                others == [i \in 1..n |-> SumAt(rest, dataPoints, i)]
                kept   == {l \in DOMAIN dataPoints : IsTop(top, l)}
                after  == MapSet([l \in kept |-> dataPoints[l]], Others, others)
            IN  [legends |-> Append(top, Others), dataPoints |-> after])
    ELSE [legends |-> legends, dataPoints |-> dataPoints]

\* ------------------------------------------------------ graphTicker.Ticks
\* Interval that divides by maxLabels + 1
IntervalOffByOne(n) == (n + maxLabels) \div (maxLabels + 1)

\* int(math.Ceil(float64(n) / float64(maxLabels)))
Interval(n) == (n + maxLabels - 1) \div maxLabels

\* int(x) for the float64 x = xH / 2: truncation toward zero
TruncHalf(xH) == IF xH >= 0 THEN xH \div 2 ELSE -((-xH) \div 2)

\* Go's a % b (the sign of the result is the sign of a)
GoMod(a, b) == IF a >= 0 THEN a % b ELSE -((-a) % b)

\* Ticks that returns the labelled ticks only
TicksLabelledOnly(t, minH, maxH, order) ==
    LET d        == Dates(t, order)
        dates    == d.ret
        interval == Interval(Len(dates))
        all      == [k \in 1..Len(dates) |-> k - 1]
        inside   == SelectSeq(all, LAMBDA i :
                        /\ 2 * i >= minH
                        /\ 2 * i <= maxH
                        /\ GoMod(TruncHalf(2 * i - minH), interval) = 0)
    IN  [ret |-> [k \in 1..Len(inside) |->
                     [value |-> inside[k], label |-> FormatDate(dates[inside[k] + 1])]],
         ticker |-> d.ticker]

\* graphTicker.Ticks(min, max): the float64 bounds are given in halves
\* (min = minH / 2, max = maxH / 2); a tick's value is its 0-based index.
Ticks(t, minH, maxH, order) ==
    LET d        == Dates(t, order)
        dates    == d.ret
        interval == Interval(Len(dates))
        tick(i)  == [value |-> i,
                     label |-> IF GoMod(TruncHalf(2 * i - minH), interval) # 0
                               THEN <<>> ELSE FormatDate(dates[i + 1])]
        all      == [k \in 1..Len(dates) |-> k - 1]
        inside   == SelectSeq(all, LAMBDA i : 2 * i >= minH /\ 2 * i <= maxH)
    IN  [ret |-> [k \in 1..Len(inside) |-> tick(inside[k])], ticker |-> d.ticker]

\* ------------------------------------------- CostGraph.WriteTo, the plot
\* BarColor that cycles through the palette
BarColorCycle(colorIndex) == graphColors[(colorIndex % Len(graphColors)) + 1]

\* the color of the bar chart added when colorIndex bars were added before
BarColor(colorIndex) ==
    IF colorIndex < Len(graphColors)
    THEN graphColors[colorIndex + 1] ELSE fallbackColor

\* WriteTo, "generate plot": one bar chart per legend, stacked in order
Bars(legends, dataPoints) ==
    [k \in 1..Len(legends) |->
        [legend |-> legends[k],
         values |-> dataPoints[legends[k]],
         color  |-> BarColor(k - 1)]]

\* LegendEntries that adds the entry of a single series too
LegendEntriesAlways(legends, dataPoints) ==
    IF Cardinality(DOMAIN dataPoints) > 0 THEN legends ELSE <<>>

\* the entries added to p.Legend
LegendEntries(legends, dataPoints) ==
    IF Cardinality(DOMAIN dataPoints) > 1 THEN legends ELSE <<>>

\* a nil error, and the nil io.WriterTo
Nil == "nil"

\* plotter.NewBarChart(dp, vg.Points(20)) fails on a vector without values
\* (the costs of the model are finite, so none is rejected as NaN or Inf)
NewBarChartErr(dp) == Len(dp) = 0

\* PlotErr that fails when there is no series to draw
PlotErrNoSeries(legends, dataPoints) ==
    IF legends = <<>> \/ \E k \in 1..Len(legends) : NewBarChartErr(dataPoints[legends[k]])
    THEN "plotter: no data points" ELSE Nil

\* the error of the first bar chart that cannot be made, if any
PlotErr(legends, dataPoints) ==
    IF \E k \in 1..Len(legends) : NewBarChartErr(dataPoints[legends[k]])
    THEN "plotter: no data points" ELSE Nil

\* the formats p.WriterTo can encode
Formats == {"eps", "jpg", "jpeg", "pdf", "png", "svg", "tex", "tif", "tiff"}

\* the error of p.WriterTo(w, h, format)
WriterToErr(format) == IF format \in Formats THEN Nil ELSE "unsupported format"

\* the range <<min, max>> (in halves) of the X axis when the plot is drawn,
\* for n dates: the bars lie at 0..n-1, the legend adds 2 (p.X.Max += 2),
\* and an empty or one-point range becomes -1..1
XRange(n, legends, dataPoints) ==
    IF legends = <<>> THEN <<-2, 2>>
    ELSE LET hi == 2 * (n - 1) + (IF Cardinality(DOMAIN dataPoints) > 1 THEN 4 ELSE 0)
         IN  IF hi = 0 THEN <<-2, 2>> ELSE <<0, hi>>

\* what WriteTo hands back before any call, and the fields an error leaves
NoOut ==
    [done |-> FALSE, w |-> Nil, err |-> Nil, title |-> "", yLabel |-> "",
     dense |-> EmptyMap, totals |-> EmptyMap, sorted |-> <<>>, legends |-> <<>>,
     dataPoints |-> EmptyMap, bars |-> <<>>, legend |-> <<>>,
     xMaxPad |-> FALSE, ticks |-> <<>>, tickDates |-> <<>>]

\* CostGraph.WriteTo from "sort by total cost" on: m is what "fill data
\* points" built. Drawing the plot (p.WriterTo) asks the tick marker
\* (&g.ticker) for the ticks of the X range.
Plot(m, title, yLabel, order) ==
    With(SortLegends(m.legends, m.totals), LAMBDA srt :
    With(Reduce(srt, m.dataPoints, TickerLen(m.g.ticker, order)), LAMBDA r :
    With(PlotErr(r.legends, r.dataPoints), LAMBDA barErr :
        IF barErr # Nil
        THEN [g |-> m.g, ret |-> [NoOut EXCEPT !.done = TRUE, !.err = barErr]]
        ELSE IF WriterToErr("png") # Nil
        THEN [g |-> m.g,
              ret |-> [NoOut EXCEPT !.done = TRUE, !.err = WriterToErr("png")]]
        ELSE
        With(XRange(TickerLen(m.g.ticker, order), r.legends, r.dataPoints),
             LAMBDA range :
        With(Ticks(m.g.ticker, range[1], range[2], order), LAMBDA tk :
        With(Dates(tk.ticker, order), LAMBDA d :
            [g |-> [m.g EXCEPT !.ticker = tk.ticker],
             ret |-> [done       |-> TRUE,
                      w          |-> "png",
                      err        |-> Nil,
                      title      |-> title,
                      yLabel     |-> yLabel,
                      dense      |-> m.dataPoints,
                      totals     |-> m.totals,
                      sorted     |-> srt,
                      legends    |-> r.legends,
                      dataPoints |-> r.dataPoints,
                      bars       |-> Bars(r.legends, r.dataPoints),
                      legend     |-> LegendEntries(r.legends, r.dataPoints),
                      xMaxPad    |-> Cardinality(DOMAIN r.dataPoints) > 1,
                      ticks      |-> tk.ret,
                      tickDates  |-> d.ret]]))))))

\* CostGraph.WriteTo: what is handed to the plot, and the graph afterwards
WriteTo(g, title, yLabel, order) ==
    With(Materialize(g, order), LAMBDA m : Plot(m, title, yLabel, order))

\* ---------------------------------------------------------------- inputs
\* the days of the graph specifications
Days == {1, 2}

Costs == {-1, 0, 2}

\* "a", "aa", "k"
Legends == {<<97>>, <<97, 97>>, <<107>>, Others}

Titles == {"Service", "Account"}

YLabels == {"Cost (USD)"}

\* The labels loaded before the first step: "a", "b", "c", ...
BaseLegend(i) == <<96 + i>>

BasePatterns == {"flat", "mixed"}

\* how many labels are loaded: none, one, and around the cap of maxSeries
BaseSizes == {k \in 0..MaxBase : k <= 1 \/ k >= MaxBase - 3}

\* The points of the i-th loaded label: pattern "flat" gives every label the
\* cost 1 on day 1; "mixed" gives totals between 1 and 4 over two days.
BasePoints(pat, i) ==
    IF pat = "flat" THEN << <<1, 1, BaseLegend(i)>> >>
    ELSE IF i % 2 = 0
         THEN << <<1, 1 + (i % 3), BaseLegend(i)>>, <<2, 1, BaseLegend(i)>> >>
         ELSE << <<1, 1 + (i % 3), BaseLegend(i)>> >>

RECURSIVE BaseLoad(_, _)
\* the insertions that load the first k labels
BaseLoad(pat, k) ==
    IF k = 0 THEN <<>> ELSE BaseLoad(pat, k - 1) \o BasePoints(pat, k)

RECURSIVE AddAll(_, _)
\* the graph after the AddDataPoint calls of ps, in order
AddAll(g, ps) ==
    IF ps = <<>> THEN g
    ELSE AddAll(AddDataPoint(g, ps[1][1], ps[1][2], ps[1][3]), Tail(ps))

\* the last cost inserted for every (legend, date), by the insertions ps
LastWritten(ps) ==
    LET ids == {<<ps[i][3], ps[i][1]>> : i \in 1..Len(ps)}
        last(id) == CHOOSE i \in 1..Len(ps) :
                        /\ <<ps[i][3], ps[i][1]>> = id
                        /\ \A j \in (i + 1)..Len(ps) : <<ps[j][3], ps[j][1]>> # id
    IN  [id \in ids |-> ps[last(id)][2]]

\* ------------------------------------------------------------------ state
VARIABLES
    graph,      \* the CostGraph
    out,        \* what the last call returned when it was WriteTo
    call,       \* the name of the last call
    args,       \* its arguments <<t, cost, legend>> when it was AddDataPoint
    written,    \* (legend, date) -> the cost of the last AddDataPoint for it
    replaced,   \* the cost that the last AddDataPoint replaced, if any
    left,       \* AddDataPoint calls still allowed
    ticker,     \* SpecTicker: a graphTicker used on its own
    tret,       \* the last call on ticker and what it returned
    recorded,   \* the dates given to AddDate so far
    lastCache,  \* the cache that the last AddDate cleared
    tleft,      \* AddDate calls still allowed
    graph2,     \* SpecOrder: a second CostGraph
    out2,       \* what WriteTo returned for graph2
    ins,        \* the insertions <<t, cost, legend>> made into both graphs
    seq1,       \* the indices of ins in the order they went into graph
    seq2,       \* the indices of ins in the order they went into graph2
    conc,       \* SpecConc: the goroutines that use graph, and its mutex
    gen,        \* SpecGenerate: the run of GraphGenerator.Generate
    acct,       \* SpecAccount: the describeAccount cache and its callers
    per,        \* SpecPeriods: a run of generateTimePeriods
    pag,        \* SpecPaginator: a paginator and the loop that drives it
    svc,        \* SpecService: the costExplorerService and its lookups
    hnd,        \* SpecHandler: the handlers, Slack and the DynamoDB table
    fb          \* SpecFeedback: the interactive requests and their effects

gvars == <<graph, out, call, args, written, replaced, left>>

tvars == <<ticker, tret, recorded, lastCache, tleft>>

ovars == <<graph2, out2, ins, seq1, seq2>>

xvars == <<conc, gen, acct>>

yvars == <<per, pag, svc, hnd, fb>>

vars == <<gvars, tvars, ovars, xvars, yvars>>

NoArgs == <<0, 0, <<>> >>

NotReplaced == [had |-> FALSE, cost |-> 0]

NoRet == [op |-> "new", dates |-> <<>>, ticks |-> <<>>, minH |-> 0, maxH |-> 0]

\* the ticker variables of the specifications that use the graph only
TickerUnused ==
    /\ ticker = NewTicker
    /\ tret = NoRet
    /\ recorded = {}
    /\ lastCache = NilCache
    /\ tleft = 0

\* the variables of the second graph where there is one graph only
SecondUnused ==
    /\ graph2 = NewCostGraph
    /\ out2 = NoOut
    /\ ins = <<>>
    /\ seq1 = <<>>
    /\ seq2 = <<>>

\* conc where no goroutine is modelled
NoConc == [pc |-> <<>>]

\* gen where Generate is not modelled
NoGen == [pc |-> "unused"]

\* acct where describeAccount is not modelled
NoAcct == [pc |-> <<>>]

ConcUnused == conc = NoConc

GenUnused == gen = NoGen

AcctUnused == acct = NoAcct

\* per, pag, svc and hnd where they are not modelled
NoPer == [pc |-> "unused"]

NoPag == [pc |-> "unused"]

NoSvc == [pc |-> "unused"]

NoHnd == [pc |-> <<>>]

NoFb == [pc |-> "unused"]

PerUnused == per = NoPer

PagUnused == pag = NoPag

SvcUnused == svc = NoSvc

HndUnused == hnd = NoHnd

FbUnused == fb = NoFb

RestUnused == PerUnused /\ PagUnused /\ SvcUnused /\ HndUnused /\ FbUnused

\* the variables of the graph where no graph is modelled
GraphUnused ==
    /\ graph = NewCostGraph
    /\ out = NoOut
    /\ call = "NewCostGraph"
    /\ args = NoArgs
    /\ written = EmptyMap
    /\ replaced = NotReplaced
    /\ left = 0

\* after NewCostGraph()
Init ==
    /\ ConcUnused
    /\ GenUnused
    /\ AcctUnused
    /\ RestUnused
    /\ TickerUnused
    /\ SecondUnused
    /\ graph = NewCostGraph
    /\ out = NoOut
    /\ call = "NewCostGraph"
    /\ args = NoArgs
    /\ replaced = NotReplaced
    /\ written = EmptyMap
    /\ left = MaxAdds

\* a graph into which a query result with k labels was loaded
InitReduce ==
    /\ ConcUnused
    /\ GenUnused
    /\ AcctUnused
    /\ RestUnused
    /\ TickerUnused
    /\ SecondUnused
    /\ \E pat \in BasePatterns, k \in BaseSizes :
          /\ graph = AddAll(NewCostGraph, BaseLoad(pat, k))
          /\ written = LastWritten(BaseLoad(pat, k))
    /\ out = NoOut
    /\ call = "NewCostGraph"
    /\ args = NoArgs
    /\ replaced = NotReplaced
    /\ left = MaxExtra

CallAddDataPoint ==
    /\ left > 0
    /\ \E t \in Days, cost \in Costs, legend \in Legends :
          /\ graph' = AddDataPoint(graph, t, cost, legend)
          /\ args' = <<t, cost, legend>>
          /\ written' = MapSet(written, <<legend, t>>, cost)
          /\ replaced' = IF <<legend, t>> \in DOMAIN written
                         THEN [had |-> TRUE, cost |-> written[<<legend, t>>]]
                         ELSE NotReplaced
    /\ call' = "AddDataPoint"
    /\ out' = NoOut
    /\ left' = left - 1
    /\ UNCHANGED <<tvars, ovars, xvars, yvars>>

CallWriteTo ==
    /\ \E title \in Titles, yLabel \in YLabels, order \in MapOrder :
          \E w \in {WriteTo(graph, title, yLabel, order)} :
              /\ graph' = w.g
              /\ out' = w.ret
    /\ call' = "WriteTo"
    /\ args' = NoArgs
    /\ replaced' = NotReplaced
    /\ UNCHANGED <<written, left>>
    /\ UNCHANGED <<tvars, ovars, xvars, yvars>>

Next == CallAddDataPoint \/ CallWriteTo

Spec == Init /\ [][Next]_vars

SpecReduce == InitReduce /\ [][Next]_vars

\* ------------------------------------------------- the ticker on its own
RECURSIVE AddDays(_, _)
\* the ticker after AddDate of the days 1..n
AddDays(t, n) == IF n = 0 THEN t ELSE AddDate(AddDays(t, n - 1), n)

\* the dates the next AddDate may record: any day up to two past the last
NextDays(dates) ==
    {d \in 1..MaxDays : IF dates = {} THEN d <= 2 ELSE \E e \in dates : d <= e + 2}

\* the visible ranges <<minH, maxH>> (in halves) tried for n dates: the
\* ranges of a bar chart of n bars, without and with the legend margin, and
\* ranges that start off the first bar or between two bars
TickRanges(n) ==
    {<<0, 2 * (n - 1)>>, <<0, 2 * (n + 1)>>, <<-2, 2>>}
        \cup ({-3, 1, 4} \X {7, 2 * n - 1})

\* a ticker that has recorded the days 1..n
InitTicker ==
    /\ graph = NewCostGraph
    /\ out = NoOut
    /\ call = "NewCostGraph"
    /\ args = NoArgs
    /\ written = EmptyMap
    /\ replaced = NotReplaced
    /\ left = 0
    /\ \E n \in 0..MaxDays :
          /\ ticker = AddDays(NewTicker, n)
          /\ recorded = 1..n
    /\ tret = NoRet
    /\ lastCache = NilCache
    /\ tleft = MaxTickAdds
    /\ SecondUnused
    /\ ConcUnused
    /\ GenUnused
    /\ AcctUnused
    /\ RestUnused

CallAddDate ==
    /\ tleft > 0
    /\ \E date \in NextDays(ticker.dates) :
          /\ ticker' = AddDate(ticker, date)
          /\ recorded' = recorded \cup {date}
    /\ lastCache' = IF ticker.cache.isNil THEN lastCache ELSE ticker.cache
    /\ tret' = [NoRet EXCEPT !.op = "AddDate"]
    /\ tleft' = tleft - 1
    /\ UNCHANGED <<gvars, ovars, xvars, yvars>>

CallDates ==
    /\ \E order \in MapOrder :
          \E d \in {Dates(ticker, order)} :
              /\ ticker' = d.ticker
              /\ tret' = [NoRet EXCEPT !.op = "Dates", !.dates = d.ret]
    /\ UNCHANGED <<recorded, lastCache, tleft>>
    /\ UNCHANGED <<gvars, ovars, xvars, yvars>>

CallTicks ==
    /\ \E order \in MapOrder, r \in TickRanges(Cardinality(ticker.dates)) :
          \E tk \in {Ticks(ticker, r[1], r[2], order)} :
              /\ ticker' = tk.ticker
              /\ tret' = [NoRet EXCEPT !.op = "Ticks", !.ticks = tk.ret,
                                       !.minH = r[1], !.maxH = r[2]]
    /\ UNCHANGED <<recorded, lastCache, tleft>>
    /\ UNCHANGED <<gvars, ovars, xvars, yvars>>

NextTicker == CallAddDate \/ CallDates \/ CallTicks

SpecTicker == InitTicker /\ [][NextTicker]_vars

\* ------------------------------------- two graphs, one set of insertions
\* "aa" and "Others"
OrderLegends == {<<97, 97>>, Others}

OrderCosts == {0, 2}

\* the labels loaded into both graphs first: none, or two below the cap
OrderBases == {0, maxSeries}

\* two new graphs with the same load, and the insertions both will get
InitOrder ==
    /\ ConcUnused
    /\ GenUnused
    /\ AcctUnused
    /\ RestUnused
    /\ TickerUnused
    /\ \E pat \in BasePatterns, k \in OrderBases :
          /\ graph = AddAll(NewCostGraph, BaseLoad(pat, k))
          /\ graph2 = AddAll(NewCostGraph, Reverse(BaseLoad(pat, k)))
          /\ written = LastWritten(BaseLoad(pat, k))
    /\ \E n \in 0..MaxIns : ins \in [1..n -> Days \X OrderCosts \X OrderLegends]
    /\ out = NoOut
    /\ out2 = NoOut
    /\ call = "NewCostGraph"
    /\ args = NoArgs
    /\ replaced = NotReplaced
    /\ left = 0
    /\ seq1 = <<>>
    /\ seq2 = <<>>

\* the next insertion into graph, which takes them in the order of ins
Insert1 ==
    /\ \E i \in {Len(seq1) + 1} \cap (1..Len(ins)) :
          /\ graph' = AddDataPoint(graph, ins[i][1], ins[i][2], ins[i][3])
          /\ written' = MapSet(written, <<ins[i][3], ins[i][1]>>, ins[i][2])
          /\ seq1' = Append(seq1, i)
    /\ UNCHANGED <<out, call, args, replaced, left, graph2, out2, ins, seq2>>
    /\ UNCHANGED <<tvars, xvars, yvars>>

\* one of the insertions not yet made into graph2, once graph has them all
Insert2 ==
    /\ Len(seq1) = Len(ins)
    /\ \E i \in (1..Len(ins)) \ Range(seq2) :
          /\ graph2' = AddDataPoint(graph2, ins[i][1], ins[i][2], ins[i][3])
          /\ seq2' = Append(seq2, i)
    /\ UNCHANGED <<gvars, out2, ins, seq1>>
    /\ UNCHANGED <<tvars, xvars, yvars>>

\* WriteTo on both graphs, with the same title and y-label
RenderBoth ==
    /\ Len(seq1) = Len(ins)
    /\ Len(seq2) = Len(ins)
    /\ ~out.done
    /\ \E title \in Titles, yLabel \in YLabels, o1 \in MapOrder :
          \E w1 \in {WriteTo(graph, title, yLabel, o1)} :
              \E o2 \in MapOrder :
                  \E w2 \in {WriteTo(graph2, title, yLabel, o2)} :
                      /\ graph' = w1.g
                      /\ out' = w1.ret
                      /\ graph2' = w2.g
                      /\ out2' = w2.ret
    /\ call' = "WriteTo"
    /\ UNCHANGED <<args, written, replaced, left, ins, seq1, seq2>>
    /\ UNCHANGED <<tvars, xvars, yvars>>

NextOrder == Insert1 \/ Insert2 \/ RenderBoth

SpecOrder == InitOrder /\ [][NextOrder]_vars

\* ------------------------------------------- one graph, rendered twice
\* graph2 is the graph as it was before the last WriteTo and out2 what the
\* WriteTo before the last one returned (NoOut when an AddDataPoint came
\* between them).
InitRepeat ==
    /\ ConcUnused
    /\ GenUnused
    /\ AcctUnused
    /\ RestUnused
    /\ TickerUnused
    /\ \E pat \in BasePatterns, k \in BaseSizes :
          /\ graph = AddAll(NewCostGraph, BaseLoad(pat, k))
          /\ written = LastWritten(BaseLoad(pat, k))
    /\ out = NoOut
    /\ call = "NewCostGraph"
    /\ args = NoArgs
    /\ replaced = NotReplaced
    /\ left = MaxExtra
    /\ graph2 = NewCostGraph
    /\ out2 = NoOut
    /\ ins = <<>>
    /\ seq1 = <<>>
    /\ seq2 = <<>>

\* the labels inserted between renders: "a" and "Others"
RepeatLegends == {<<97>>, Others}

RepeatAddDataPoint ==
    /\ left > 0
    /\ \E t \in Days, cost \in Costs \ {0}, legend \in RepeatLegends :
          /\ graph' = AddDataPoint(graph, t, cost, legend)
          /\ args' = <<t, cost, legend>>
          /\ written' = MapSet(written, <<legend, t>>, cost)
    /\ call' = "AddDataPoint"
    /\ out' = NoOut
    /\ out2' = NoOut
    /\ graph2' = NewCostGraph
    /\ left' = left - 1
    /\ UNCHANGED <<replaced, ins, seq1, seq2, tvars, xvars, yvars>>

RepeatWriteTo ==
    /\ \E title \in Titles, yLabel \in YLabels, order \in MapOrder :
          \E w \in {WriteTo(graph, title, yLabel, order)} :
              /\ graph' = w.g
              /\ out' = w.ret
    /\ graph2' = graph
    /\ out2' = out
    /\ call' = "WriteTo"
    /\ args' = NoArgs
    /\ UNCHANGED <<written, replaced, left, ins, seq1, seq2, tvars, xvars, yvars>>

NextRepeat == RepeatAddDataPoint \/ RepeatWriteTo

SpecRepeat == InitRepeat /\ [][NextRepeat]_vars

\* ------------------------------------- goroutines that share one CostGraph
\* Two producers call AddDataPoint and one goroutine calls WriteTo. Each
\* statement of the two methods is a step; g.mu.Lock() is a step that waits
\* until the mutex is free. graphTicker's methods hold the ticker's own
\* mutex t.mu from entry to return, so each is one step.
Producers == {"p1", "p2"}

Renderer == "render"

Free == "free"

\* the points the producers insert
ConcPoints ==
    {<<1, 1, <<97>> >>, <<2, 2, <<97>> >>, <<2, 1, <<107>> >>, <<3, 2, <<108>> >>}

\* how many labels are loaded before the goroutines start
ConcBases == {0, 2}

\* AddLockEnabled that never waits
AddLockNoWait(mu) == TRUE

\* g.mu.Lock() in AddDataPoint returns when the mutex is free
AddLockEnabled(mu) == mu = Free

\* RenderLockEnabled that never waits
RenderLockNoWait(mu) == TRUE

\* g.mu.Lock() in WriteTo returns when the mutex is free
RenderLockEnabled(mu) == mu = Free

\* what "fill data points" has built before its first legend
NoFill == [legends |-> <<>>, dataPoints |-> EmptyMap, totals |-> EmptyMap]

\* one round of the loop of "fill data points", for legend
FillOne(g, acc, legend, order) ==
    With(Dates(g.ticker, order), LAMBDA d :
        LET dp     == g.dataPoints[legend]
            values == DenseValues(dp, d.ret)
            fill   == [date \in (DOMAIN dp) \cup Range(d.ret) |->
                          IF date \in DOMAIN dp THEN dp[date] ELSE 0]
        IN  [acc |-> [legends    |-> Append(acc.legends, legend),
                      dataPoints |-> MapSet(acc.dataPoints, legend, values),
                      totals     |-> MapSet(acc.totals, legend, SeqSum(values))],
             g   |-> [dataPoints |-> MapSet(g.dataPoints, legend, fill),
                      ticker     |-> d.ticker]])

InitConc ==
    /\ TickerUnused
    /\ SecondUnused
    /\ GenUnused
    /\ AcctUnused
    /\ RestUnused
    /\ \E k \in ConcBases :
          /\ graph = AddAll(NewCostGraph, BaseLoad("flat", k))
          /\ conc = [pc       |-> [p \in Producers \cup {Renderer} |-> "idle"],
                     mu       |-> Free,
                     args     |-> [p \in Producers |-> NoArgs],
                     issued   |-> [p \in Producers |-> <<>>],
                     finished |-> [p \in Producers |-> 0],
                     base     |-> AddAll(NewCostGraph, BaseLoad("flat", k)),
                     title    |-> "",
                     yLabel   |-> "",
                     order    |-> "fwd",
                     todo     |-> <<>>,
                     acc      |-> NoFill,
                     snap     |-> NewCostGraph,
                     snapDone |-> [p \in Producers |-> 0]]
    /\ out = NoOut
    /\ call = "NewCostGraph"
    /\ args = NoArgs
    /\ written = EmptyMap
    /\ replaced = NotReplaced
    /\ left = 0

\* conc with process p at pc
Goto(p, pc) == [conc EXCEPT !.pc[p] = pc]

ConcFrame == UNCHANGED <<call, args, written, replaced, left, tvars, ovars, gen, acct, yvars>>

\* a producer calls AddDataPoint(t, cost, legend)
AddCall(p) ==
    /\ conc.pc[p] = "idle"
    /\ Len(conc.issued[p]) < MaxCalls
    /\ \E pt \in ConcPoints :
          conc' = [conc EXCEPT !.pc[p] = "lock", !.args[p] = pt,
                               !.issued[p] = Append(@, pt)]
    /\ UNCHANGED <<graph, out>>
    /\ ConcFrame

\* g.mu.Lock()
AddLock(p) ==
    /\ conc.pc[p] = "lock"
    /\ AddLockEnabled(conc.mu)
    /\ conc' = [conc EXCEPT !.pc[p] = "check", !.mu = p]
    /\ UNCHANGED <<graph, out>>
    /\ ConcFrame

\* if _, ok := g.dataPoints[legend]; !ok
AddCheck(p) ==
    /\ conc.pc[p] = "check"
    /\ conc' = Goto(p, IF conc.args[p][3] \in DOMAIN graph.dataPoints
                       THEN "set" ELSE "make")
    /\ UNCHANGED <<graph, out>>
    /\ ConcFrame

\* g.dataPoints[legend] = make(map[time.Time]float64)
AddMake(p) ==
    /\ conc.pc[p] = "make"
    /\ graph' = [graph EXCEPT !.dataPoints = MapSet(@, conc.args[p][3], EmptyMap)]
    /\ conc' = Goto(p, "set")
    /\ UNCHANGED out
    /\ ConcFrame

\* g.dataPoints[legend][t] = cost
AddSet(p) ==
    /\ conc.pc[p] = "set"
    /\ LET t == conc.args[p][1]
           cost == conc.args[p][2]
           legend == conc.args[p][3]
       IN  graph' = [graph EXCEPT !.dataPoints =
                        MapSet(@, legend, MapSet(graph.dataPoints[legend], t, cost))]
    /\ conc' = Goto(p, "date")
    /\ UNCHANGED out
    /\ ConcFrame

\* g.ticker.AddDate(t)
AddTickerDate(p) ==
    /\ conc.pc[p] = "date"
    /\ graph' = [graph EXCEPT !.ticker = AddDate(@, conc.args[p][1])]
    /\ conc' = Goto(p, "unlock")
    /\ UNCHANGED out
    /\ ConcFrame

\* the deferred g.mu.Unlock(), and the return
AddUnlock(p) ==
    /\ conc.pc[p] = "unlock"
    /\ conc' = [conc EXCEPT !.pc[p] = "idle", !.mu = Free, !.finished[p] = @ + 1]
    /\ UNCHANGED <<graph, out>>
    /\ ConcFrame

\* the rendering goroutine calls WriteTo(title, yLabel)
RenderCall ==
    /\ conc.pc[Renderer] = "idle"
    /\ \E title \in {"Service"}, yLabel \in YLabels :
          conc' = [conc EXCEPT !.pc[Renderer] = "lock", !.title = title,
                               !.yLabel = yLabel]
    /\ UNCHANGED <<graph, out>>
    /\ ConcFrame

\* g.mu.Lock(), and the start of the range over g.dataPoints
RenderLock ==
    /\ conc.pc[Renderer] = "lock"
    /\ RenderLockEnabled(conc.mu)
    /\ \E order \in MapOrder :
          conc' = [conc EXCEPT !.pc[Renderer] = "fill", !.mu = Renderer,
                               !.order = order,
                               !.todo = RangeKeys(DOMAIN graph.dataPoints, order),
                               !.acc = NoFill,
                               !.snap = graph,
                               !.snapDone = conc.finished]
    /\ UNCHANGED <<graph, out>>
    /\ ConcFrame

\* one round of the loop over g.dataPoints
RenderFill ==
    /\ conc.pc[Renderer] = "fill"
    /\ conc.todo # <<>>
    /\ \E f \in {FillOne(graph, conc.acc, Head(conc.todo), conc.order)} :
          /\ graph' = f.g
          /\ conc' = [conc EXCEPT !.acc = f.acc, !.todo = Tail(@)]
    /\ UNCHANGED out
    /\ ConcFrame

\* the rest of WriteTo, the deferred g.mu.Unlock(), and the return
RenderPlot ==
    /\ conc.pc[Renderer] = "fill"
    /\ conc.todo = <<>>
    /\ \E w \in {Plot([legends    |-> conc.acc.legends,
                       dataPoints |-> conc.acc.dataPoints,
                       totals     |-> conc.acc.totals,
                       g          |-> graph],
                      conc.title, conc.yLabel, conc.order)} :
          /\ graph' = w.g
          /\ out' = w.ret
    /\ conc' = [conc EXCEPT !.pc[Renderer] = "done", !.mu = Free]
    /\ ConcFrame

NextConc ==
    \/ \E p \in Producers :
          \/ AddCall(p)
          \/ AddLock(p)
          \/ AddCheck(p)
          \/ AddMake(p)
          \/ AddSet(p)
          \/ AddTickerDate(p)
          \/ AddUnlock(p)
    \/ RenderCall
    \/ RenderLock
    \/ RenderFill
    \/ RenderPlot

SpecConc == InitConc /\ [][NextConc]_vars

\* ------------------------------------------------ GraphGenerator.Generate
\* Generate makes one graph per root cause: generate queries Cost Explorer
\* page by page into a new CostGraph and renders it, and the writer's
\* WriteTo fills a new buffer. The answers of Cost Explorer and the bytes of
\* the image are inputs. A buffer is the number of bytes it holds.

\* the root causes of an anomaly, by their Service
Services == {"EC2", "S3"}

\* one ResultByTime of a page: its TimePeriod.Start, and what it holds
ResultKinds == {"total", "group", "nonfinite", "baddate", "nometric", "badamount"}

\* the results a page can hold: none, or one of each kind
PageResults == {<<>>} \cup {<< <<d, k>> >> : d \in Days, k \in ResultKinds}

\* the encoded image, as the sizes of the chunks the encoder writes
Images == {<<100>>, <<100, 150>>}

\* "NetUnblendedCost", the label of a result without groups
NetUnblendedCost ==
    <<78, 101, 116, 85, 110, 98, 108, 101, 110, 100, 101, 100, 67, 111, 115, 116>>

\* what generate has after the results rs of one page: the graph, the unit,
\* whether a cost that is not finite was inserted, and the error that ended
\* the loop, if any. strconv.ParseFloat accepts "NaN" and "Inf".
RECURSIVE AddResults(_, _)
AddResults(st, rs) ==
    IF rs = <<>> \/ st.err # Nil THEN st
    ELSE LET date == rs[1][1]
             kind == rs[1][2]
             next ==
                 CASE kind = "baddate"   -> [st EXCEPT !.err = "failed to parse point date"]
                   [] kind = "nometric"  -> [st EXCEPT !.err = "NetUnblendedCost not found"]
                   [] kind = "badamount" -> [st EXCEPT !.err = "strconv.ParseFloat"]
                   [] kind = "total"     ->
                        [st EXCEPT !.g = AddDataPoint(st.g, date, 2, NetUnblendedCost),
                                   !.unit = "USD"]
                   [] kind = "group"     ->
                        [st EXCEPT !.g = AddDataPoint(st.g, date, 1, <<97>>),
                                   !.unit = "USD"]
                   [] kind = "nonfinite" ->
                        [st EXCEPT !.g = AddDataPoint(st.g, date, 0, <<97>>),
                                   !.unit = "USD", !.nonFinite = TRUE]
         IN  AddResults(next, Tail(rs))

\* fmt.Sprintf("Cost (%s)", unit)
CostLabel(unit) == IF unit = "" THEN "Cost ()" ELSE "Cost (USD)"

\* graph.WriteTo(title, yLabel) in generate: plotter.NewBarChart rejects a
\* series that holds a NaN or an infinite value (every such cost is in a
\* drawn series or in "Others"), and WriteTo then returns nil and the error
GenWriteTo(g, nonFinite, title, yLabel, order) ==
    IF nonFinite
    THEN [g |-> Materialize(g, order).g,
          ret |-> [NoOut EXCEPT !.done = TRUE, !.err = "plotter: NaN or Inf"]]
    ELSE WriteTo(g, title, yLabel, order)

\* NewBuffer that is the one buffer used for every graph
SharedBuffer(graphs) == IF graphs = <<>> THEN 0 ELSE graphs[Len(graphs)].r

\* var buf bytes.Buffer, declared in the body of the loop: a new, empty
\* buffer for each graph
NewBuffer(graphs) == 0

RECURSIVE ImageWriteTo(_, _, _)
\* w.WriteTo(&buf) for the image chunks, of which the first `good` are
\* written: each Write appends to the buffer and is counted
ImageWriteTo(st, chunks, good) ==
    IF chunks = <<>> THEN st
    ELSE IF good = 0 THEN [st EXCEPT !.err = "png: write failed"]
    ELSE ImageWriteTo([st EXCEPT !.buf = @ + Head(chunks), !.n = @ + Head(chunks)],
                      Tail(chunks), good - 1)

\* a Graph{r: &buf, size: n}; title is the title of the image in the buffer
NewGraph(buf, n, title) == [r |-> buf, size |-> n, title |-> title]

\* a nil []*Graph
NilGraphs == [isNil |-> TRUE, elems |-> <<>>]

\* GenError that returns the graphs built so far with the error
GenErrorPartial(err) == [graphs |-> [isNil |-> FALSE, elems |-> gen.graphs], err |-> err]

\* what Generate returns on an error: return nil, fmt.Errorf(...)
GenError(err) == [graphs |-> NilGraphs, err |-> err]

\* Generate has returned ret, an error
Fail(ret) == [gen EXCEPT !.pc = "returned", !.ret = ret, !.failures = @ + 1]

InitGenerate ==
    /\ TickerUnused
    /\ SecondUnused
    /\ ConcUnused
    /\ AcctUnused
    /\ RestUnused
    /\ graph = NewCostGraph
    /\ out = NoOut
    /\ call = "NewCostGraph"
    /\ args = NoArgs
    /\ written = EmptyMap
    /\ replaced = NotReplaced
    /\ left = 0
    /\ \E n \in 0..MaxCauses :
          \E causes \in [1..n -> Services] :
              gen = [pc        |-> "loop",
                     causes    |-> causes,
                     i         |-> 1,
                     graphs    |-> <<>>,
                     firstPage |-> FALSE,
                     nextToken |-> Nil,
                     pages     |-> 0,
                     unit      |-> "",
                     nonFinite |-> FALSE,
                     w         |-> Nil,
                     queries   |-> 0,
                     renders   |-> 0,
                     writes    |-> 0,
                     failures  |-> 0,
                     ret       |-> [graphs |-> NilGraphs, err |-> Nil]]

GenFrame == UNCHANGED <<call, args, written, replaced, left, tvars, ovars, conc, acct, yvars>>

\* the next root cause: generate up to graph := NewCostGraph()
BeginCause ==
    /\ gen.pc = "loop"
    /\ gen.i <= Len(gen.causes)
    /\ graph' = NewCostGraph
    /\ out' = NoOut
    /\ gen' = [gen EXCEPT !.pc = "pages", !.firstPage = TRUE, !.nextToken = Nil,
                          !.pages = 0, !.unit = "", !.nonFinite = FALSE, !.w = Nil]
    /\ GenFrame

\* paginator.HasMorePages()
HasMorePages == gen.firstPage \/ gen.nextToken # Nil

\* one round of the paginator loop: NextPage, then the results of the page
NextPage ==
    /\ gen.pc = "pages"
    /\ HasMorePages
    /\ \/ /\ gen' = [Fail(GenError("failed to get cost and usage"))
                        EXCEPT !.queries = @ + 1]
          /\ UNCHANGED graph
       \/ \E rs \in PageResults,
             token \in IF gen.pages + 1 < MaxPages THEN {Nil, "token"} ELSE {Nil} :
             \E st \in {AddResults([g |-> graph, unit |-> gen.unit,
                                    nonFinite |-> gen.nonFinite, err |-> Nil], rs)} :
                 /\ graph' = st.g
                 /\ gen' = IF st.err # Nil
                           THEN [Fail(GenError(st.err)) EXCEPT !.queries = @ + 1]
                           ELSE [gen EXCEPT !.firstPage = FALSE, !.nextToken = token,
                                            !.pages = @ + 1, !.unit = st.unit,
                                            !.nonFinite = st.nonFinite,
                                            !.queries = @ + 1]
    /\ UNCHANGED out
    /\ GenFrame

\* graph.WriteTo(title, yLabel) and the return of generate
Render ==
    /\ gen.pc = "pages"
    /\ ~HasMorePages
    /\ \E order \in MapOrder :
          \E w \in {GenWriteTo(graph, gen.nonFinite, gen.causes[gen.i],
                               CostLabel(gen.unit), order)} :
              /\ graph' = w.g
              /\ out' = w.ret
              /\ gen' = IF w.ret.err # Nil
                        THEN [Fail(GenError(w.ret.err)) EXCEPT !.renders = @ + 1]
                        ELSE [gen EXCEPT !.pc = "write", !.w = w.ret.w,
                                         !.renders = @ + 1]
    /\ GenFrame

\* n, err := w.WriteTo(&buf) into a new buffer, and the append to graphs.
\* The writer counts the bytes it has written: on success all the bytes of
\* the image, on an error those written before it.
Write ==
    /\ gen.pc = "write"
    /\ \E image \in Images :
          \E good \in {0, Len(image)} :
              \E wr \in {ImageWriteTo([buf |-> NewBuffer(gen.graphs), n |-> 0,
                                       err |-> Nil], image, good)} :
                  gen' = IF wr.err = Nil
                         THEN [gen EXCEPT !.pc = "loop", !.i = @ + 1, !.writes = @ + 1,
                                  !.graphs = Append(@, NewGraph(wr.buf, wr.n, out.title))]
                         ELSE [Fail(GenError("failed to write graph"))
                                  EXCEPT !.writes = @ + 1]
    /\ UNCHANGED <<graph, out>>
    /\ GenFrame

\* return graphs, nil
ReturnGraphs ==
    /\ gen.pc = "loop"
    /\ gen.i > Len(gen.causes)
    /\ gen' = [gen EXCEPT !.pc = "returned",
                          !.ret = [graphs |-> [isNil |-> FALSE, elems |-> gen.graphs],
                                   err |-> Nil]]
    /\ UNCHANGED <<graph, out>>
    /\ GenFrame

NextGenerate == BeginCause \/ NextPage \/ Render \/ Write \/ ReturnGraphs

SpecGenerate == InitGenerate /\ [][NextGenerate]_vars

\* ------------------------------------------ GraphGenerator.describeAccount
\* Two goroutines call describeAccount on one GraphGenerator while the clock
\* advances. The method holds cacheDescribeAccountMu from entry to return,
\* the call of the organizations API included. A time is a number of clock
\* steps of 20 minutes.
Callers == {"c1", "c2"}

AccountIDs == {"111111111111", "222222222222"}

\* *desc.Account.Name of the account
AccountName(accountID) == IF accountID = "111111111111" THEN "dev" ELSE "prod"

\* m[k] of a Go map: the zero value (nil) when k is not a key
MapGet(m, k) == IF k \in DOMAIN m THEN m[k] ELSE Nil

\* the first statements of describeAccount: is there an entry for accountID
\* that has not expired
CacheHit(c, accountID, now) ==
    accountID \in DOMAIN c.expire /\ now < c.expire[accountID]

\* CacheStore that keeps a failed lookup out of the cache
CacheStoreSuccessOnly(c, accountID, now, name, err) ==
    IF err # Nil THEN c
    ELSE [c EXCEPT !.expire = MapSet(@, accountID, now + Hour),
                   !.output = MapSet(@, accountID, name)]

\* the statements of describeAccount after g.org.DescribeAccount returned
\* (out, err) at time now
CacheStore(c, accountID, now, name, err) ==
    IF err # Nil
    THEN [c EXCEPT !.expire = MapSet(@, accountID, now + Hour),
                   !.error = MapSet(@, accountID, err)]
    ELSE [c EXCEPT !.expire = MapSet(@, accountID, now + Hour),
                   !.output = MapSet(@, accountID, name)]

\* generate: the label of a LINKED_ACCOUNT group key v, from what
\* describeAccount returned
AccountLabel(v, name, err) == IF err # Nil THEN v ELSE <<name, v>>

NoLookup ==
    [accountID |-> "", hit |-> FALSE, name |-> Nil, err |-> Nil, label |-> "",
     after |-> 0]

InitAccount ==
    /\ RestUnused
    /\ TickerUnused
    /\ SecondUnused
    /\ ConcUnused
    /\ GenUnused
    /\ graph = NewCostGraph
    /\ out = NoOut
    /\ call = "NewCostGraph"
    /\ args = NoArgs
    /\ written = EmptyMap
    /\ replaced = NotReplaced
    /\ left = 0
    /\ acct = [pc       |-> [c \in Callers |-> "idle"],
               mu       |-> Free,
               now      |-> 0,
               cache    |-> [expire |-> EmptyMap, output |-> EmptyMap,
                             error |-> EmptyMap],
               id       |-> [c \in Callers |-> ""],
               start    |-> [c \in Callers |-> 0],
               answer   |-> [c \in Callers |-> Nil],
               lookups  |-> 0,
               apiCalls |-> [a \in AccountIDs |-> <<>>],
               last     |-> [c \in Callers |-> NoLookup]]

AcctFrame == UNCHANGED <<gvars, tvars, ovars, conc, gen, yvars>>

\* the clock advances
Tick ==
    /\ acct.now < MaxNow
    /\ acct' = [acct EXCEPT !.now = @ + 1]
    /\ AcctFrame

\* generate meets a group whose key is a linked account
DescribeCall(c) ==
    /\ acct.pc[c] = "idle"
    /\ acct.lookups < MaxLookups
    /\ \E accountID \in AccountIDs :
          acct' = [acct EXCEPT !.pc[c] = "lock", !.id[c] = accountID,
                               !.lookups = @ + 1]
    /\ AcctFrame

\* g.cacheDescribeAccountMu.Lock()
DescribeLock(c) ==
    /\ acct.pc[c] = "lock"
    /\ acct.mu = Free
    /\ acct' = [acct EXCEPT !.pc[c] = "check", !.mu = c]
    /\ AcctFrame

\* the result of a lookup, as generate uses it
Lookup(c, hit, name, err) ==
    [accountID |-> acct.id[c], hit |-> hit, name |-> name, err |-> err,
     label |-> AccountLabel(acct.id[c], name, err),
     after |-> Len(acct.apiCalls[acct.id[c]])]

\* an entry that has not expired: return the cached output and error
DescribeHit(c) ==
    /\ acct.pc[c] = "check"
    /\ CacheHit(acct.cache, acct.id[c], acct.now)
    /\ acct' = [acct EXCEPT !.pc[c] = "idle", !.mu = Free, !.id[c] = "",
                   !.last[c] = Lookup(c, TRUE,
                                      MapGet(acct.cache.output, acct.id[c]),
                                      MapGet(acct.cache.error, acct.id[c]))]
    /\ AcctFrame

\* no such entry: g.org.DescribeAccount is called, and answers
DescribeMiss(c) ==
    /\ acct.pc[c] = "check"
    /\ ~CacheHit(acct.cache, acct.id[c], acct.now)
    /\ \E err \in {Nil, "AccessDeniedException"} :
          acct' = [acct EXCEPT !.pc[c] = "store", !.start[c] = acct.now,
                               !.answer[c] = err]
    /\ AcctFrame

\* the answer is stored with its expiry, and returned
DescribeStore(c) ==
    /\ acct.pc[c] = "store"
    /\ LET accountID == acct.id[c]
           err  == acct.answer[c]
           name == IF err = Nil THEN AccountName(accountID) ELSE Nil
       IN  acct' = [acct EXCEPT
                       !.pc[c] = "idle",
                       !.mu = Free,
                       !.id[c] = "",
                       !.start[c] = 0,
                       !.answer[c] = Nil,
                       !.cache = CacheStore(@, accountID, acct.now, name, err),
                       !.apiCalls[accountID] =
                           Append(@, [start |-> acct.start[c], done |-> acct.now,
                                      ok |-> err = Nil]),
                       !.last[c] = [Lookup(c, FALSE, name, err) EXCEPT !.after = @ + 1]]
    /\ AcctFrame

NextAccount ==
    \/ Tick
    \/ \E c \in Callers :
          \/ DescribeCall(c)
          \/ DescribeLock(c)
          \/ DescribeHit(c)
          \/ DescribeMiss(c)
          \/ DescribeStore(c)

SpecAccount == InitAccount /\ [][NextAccount]_vars

\* ------------------------------------------------- generateTimePeriods
\* One run of generateTimePeriods(startAt, endAt), one loop round a step.
\* The times are midnights of 2024, given as day numbers; today is
\* flextime.Now().Truncate(time.Hour * 24).

\* t.Month() of day number date of 2024 (the year is 2024 throughout)
MonthOf(date) ==
    CHOOSE k \in 1..12 : DaysBefore[k] < date /\ date <= DaysBefore[k] + MonthDays[k]

\* Jan 29, Jan 31, Feb 1, Feb 27
PeriodStarts == {29, 31, 32, 58}

\* Jan 31, Feb 14, Apr 9
PeriodTodays == {31, 45, 100}

\* &types.DateInterval{Start: ..., End: ...}
DateInterval(start, end) == [Start |-> FormatDate(start), End |-> FormatDate(end)]

InitPeriods ==
    /\ GraphUnused
    /\ TickerUnused
    /\ SecondUnused
    /\ ConcUnused
    /\ GenUnused
    /\ AcctUnused
    /\ PagUnused
    /\ SvcUnused
    /\ HndUnused
    /\ FbUnused
    /\ \E startAt \in PeriodStarts, span \in 0..MaxSpan, today \in PeriodTodays :
          per = [pc          |-> "loop",
                 startAt     |-> startAt,
                 endAt       |-> startAt + span,
                 today       |-> today,
                 timePeriods |-> <<>>,
                 current     |-> startAt,
                 next        |-> startAt + 1]

PerFrame == UNCHANGED <<gvars, tvars, ovars, xvars, pag, svc, hnd, fb>>

\* one round of "for next.Before(endAt)"
PeriodsRound ==
    /\ per.pc = "loop"
    /\ per.next < per.endAt
    /\ per' = IF MonthOf(per.current) # MonthOf(per.next)
              THEN [per EXCEPT
                       !.timePeriods = Append(@, DateInterval(per.current, per.next)),
                       !.current = per.next,
                       !.next = @ + 1]
              ELSE [per EXCEPT !.next = @ + 1]
    /\ PerFrame

\* the loop ends: the last period, when it does not start after today
PeriodsReturn ==
    /\ per.pc = "loop"
    /\ ~(per.next < per.endAt)
    /\ per' = [per EXCEPT
                  !.pc = "done",
                  !.timePeriods =
                      IF per.current <= per.today
                      THEN Append(@, DateInterval(per.current, per.endAt + 1))
                      ELSE @]
    /\ PerFrame

NextPeriods == PeriodsRound \/ PeriodsReturn

SpecPeriods == InitPeriods /\ [][NextPeriods]_vars

\* ------------------------------------- costexplorerx: the two paginators
\* GetCostAndUsagePaginator and GetAnomaliesPaginator have the same code but
\* for the API they call. A paginator is [params, nextToken, firstPage]; a
\* token is Nil (the nil pointer), "" or a non-empty string. The loop is the
\* one of generate and of getAnomalies:
\*   for p.HasMorePages() { out, err := p.NextPage(ctx); if err != nil { return } ... }
PaginatedAPIs == {"GetCostAndUsage", "GetAnomalies"}

\* the NextPageToken of a response
PageTokens == {Nil, "", "t1", "t2"}

\* what the API answers: a page with its NextPageToken, or an error
PageAnswers ==
    [token : PageTokens, err : {Nil}] \cup
        {[token |-> Nil, err |-> "ThrottlingException"]}

\* NewGetCostAndUsagePaginator(client, params), NewGetAnomaliesPaginator
NewPaginator(params) == [params |-> params, nextToken |-> Nil, firstPage |-> TRUE]

\* HasMorePages without the test of the token's length
PaginatorHasMorePagesNotNil(p) == p.firstPage \/ p.nextToken # Nil

\* p.HasMorePages()
PaginatorHasMorePages(p) ==
    p.firstPage \/ (p.nextToken # Nil /\ p.nextToken # "")

\* NextPage that marks the first page as taken before it calls the API
PaginatorNextPageEarly(p, answer) ==
    IF ~PaginatorHasMorePages(p)
    THEN [p |-> p, called |-> FALSE, request |-> Nil, page |-> Nil, err |-> Nil]
    ELSE IF answer.err # Nil
    THEN [p |-> [p EXCEPT !.firstPage = FALSE], called |-> TRUE,
          request |-> p.nextToken, page |-> Nil, err |-> answer.err]
    ELSE [p |-> [p EXCEPT !.firstPage = FALSE, !.nextToken = answer.token],
          called |-> TRUE, request |-> p.nextToken,
          page |-> [NextPageToken |-> answer.token], err |-> Nil]

\* p.NextPage(ctx) when the API, if it is called, gives answer: the
\* paginator afterwards, whether the API was called and with which
\* NextPageToken in the copy of the parameters, and the page and error
\* returned
PaginatorNextPage(p, answer) ==
    IF ~PaginatorHasMorePages(p)
    THEN [p |-> p, called |-> FALSE, request |-> Nil, page |-> Nil, err |-> Nil]
    ELSE IF answer.err # Nil
    THEN [p |-> p, called |-> TRUE, request |-> p.nextToken,
          page |-> Nil, err |-> answer.err]
    ELSE [p |-> [p EXCEPT !.firstPage = FALSE, !.nextToken = answer.token],
          called |-> TRUE, request |-> p.nextToken,
          page |-> [NextPageToken |-> answer.token], err |-> Nil]

\* no NextPage call yet
NoPage ==
    [before |-> NewPaginator([NextPageToken |-> Nil]), hadMore |-> FALSE,
     called |-> FALSE, page |-> Nil, err |-> Nil, inLoop |-> FALSE, calls |-> 0]

InitPaginator ==
    /\ GraphUnused
    /\ TickerUnused
    /\ SecondUnused
    /\ ConcUnused
    /\ GenUnused
    /\ AcctUnused
    /\ PerUnused
    /\ SvcUnused
    /\ HndUnused
    /\ FbUnused
    /\ \E api \in PaginatedAPIs, token \in {Nil, "t0"} :
          pag = [pc       |-> "test",
                 api      |-> api,
                 p        |-> NewPaginator([NextPageToken |-> token]),
                 requests |-> <<>>,
                 answers  |-> <<>>,
                 last     |-> NoPage,
                 direct   |-> 0]

PagFrame == UNCHANGED <<gvars, tvars, ovars, xvars, per, svc, hnd, fb>>

\* the answers the API may give to the next request: the last request
\* allowed is not answered with a token that asks for another one
NextAnswers ==
    IF Len(pag.requests) + 1 < MaxRequests THEN PageAnswers
    ELSE {a \in PageAnswers : a.token \in {Nil, ""}}

\* pag after a NextPage call that returned r
AfterNextPage(r, answer, inLoop) ==
    [pag EXCEPT
        !.p = r.p,
        !.requests = IF r.called THEN Append(@, r.request) ELSE @,
        !.answers = IF r.called THEN Append(@, answer) ELSE @,
        !.last = [before |-> pag.p, hadMore |-> PaginatorHasMorePages(pag.p),
                  called |-> r.called, page |-> r.page, err |-> r.err,
                  inLoop |-> inLoop, calls |-> pag.last.calls + 1]]

\* the loop condition: for p.HasMorePages()
LoopTest ==
    /\ pag.pc = "test"
    /\ pag' = [pag EXCEPT !.pc = IF PaginatorHasMorePages(pag.p) THEN "body" ELSE "end"]
    /\ PagFrame

\* the loop body: out, err := p.NextPage(ctx); if err != nil { return ... }
LoopNextPage ==
    /\ pag.pc = "body"
    /\ \E answer \in NextAnswers :
          \E r \in {PaginatorNextPage(pag.p, answer)} :
              pag' = [AfterNextPage(r, answer, TRUE) EXCEPT
                         !.pc = IF r.err # Nil THEN "failed" ELSE "test"]
    /\ PagFrame

\* NextPage called on the paginator after the loop has ended
DirectNextPage ==
    /\ pag.pc \in {"end", "failed"}
    /\ pag.direct < MaxDirect
    /\ PaginatorHasMorePages(pag.p) => Len(pag.requests) < MaxRequests
    /\ \E answer \in NextAnswers :
          \E r \in {PaginatorNextPage(pag.p, answer)} :
              /\ ~r.called => answer = CHOOSE a \in NextAnswers : TRUE
              /\ pag' = [AfterNextPage(r, answer, FALSE) EXCEPT !.direct = @ + 1]
    /\ PagFrame

NextPaginator == LoopTest \/ LoopNextPage \/ DirectNextPage

SpecPaginator == InitPaginator /\ [][NextPaginator]_vars

\* ------------------------------------------ costExplorerService.GetAnomaly
\* GetAnomaly calls on one costExplorerService, one after the other (the
\* service has no lock). A step is the entry of a call, with its two tests,
\* or one round of its loop. A date is a day number of 2024.
AnomalyIDs == {"anomaly-1", "anomaly-2"}

\* now at newCostExplorerService: May 29, Jul 18
ServiceNows == {150, 200}

ErrAnomalyNotFound == "anomaly not found"

\* newCostExplorerService
NewService(now) ==
    [cacheAnomaly |-> EmptyMap,
     nextEndDate  |-> now - WindowDays,
     allGet       |-> FALSE,
     dateInterval |-> [StartDate |-> FormatDate(now - WindowDays),
                       EndDate   |-> FormatDate(now)]]

\* the anomalies of one answer of getAnomalies, as found in the window
AnomaliesOf(ids, interval) ==
    {[AnomalyId |-> id, foundIn |-> interval] : id \in ids}

RECURSIVE CacheAll(_, _)
\* for _, a := range anomaly { r.cacheAnomaly[*a.AnomalyId] = a }
CacheAll(cache, anomaly) ==
    IF anomaly = {} THEN cache
    ELSE LET a == CHOOSE x \in anomaly : TRUE
         IN  CacheAll(MapSet(cache, a.AnomalyId, a), anomaly \ {a})

\* AfterGetAnomalies that goes on after an empty window
AfterGetAnomaliesGoOn(r, anomaly) ==
    LET startDate == r.nextEndDate - WindowDays
    IN  [r EXCEPT
            !.dateInterval = [StartDate |-> FormatDate(startDate),
                              EndDate   |-> FormatDate(r.nextEndDate)],
            !.nextEndDate  = startDate,
            !.cacheAnomaly = CacheAll(@, anomaly)]

\* the service after getAnomalies returned the anomalies of the window
\* r.dateInterval without an error: the next window is set, an empty answer
\* sets allGet, and the anomalies are cached
AfterGetAnomalies(r, anomaly) ==
    LET startDate == r.nextEndDate - WindowDays
    IN  [r EXCEPT
            !.dateInterval = [StartDate |-> FormatDate(startDate),
                              EndDate   |-> FormatDate(r.nextEndDate)],
            !.nextEndDate  = startDate,
            !.allGet       = @ \/ anomaly = {},
            !.cacheAnomaly = CacheAll(@, anomaly)]

\* no GetAnomaly call yet
NoGet ==
    [anomalyID |-> "", before |-> NewService(WindowDays + 1), calls |-> 0,
     ret |-> Nil, err |-> Nil, n |-> 0]

InitService ==
    /\ GraphUnused
    /\ TickerUnused
    /\ SecondUnused
    /\ ConcUnused
    /\ GenUnused
    /\ AcctUnused
    /\ PerUnused
    /\ PagUnused
    /\ HndUnused
    /\ FbUnused
    /\ \E now \in ServiceNows :
          svc = [pc      |-> "idle",
                 now     |-> now,
                 r       |-> NewService(now),
                 cur     |-> NoGet,
                 last    |-> NoGet,
                 fetches |-> <<>>]

SvcFrame == UNCHANGED <<gvars, tvars, ovars, xvars, per, pag, hnd, fb>>

\* GetAnomaly returns (a, err)
SvcReturn(s, a, err) ==
    [s EXCEPT !.pc = "idle", !.last = [s.cur EXCEPT !.ret = a, !.err = err],
              !.cur = NoGet]

\* GetAnomaly(ctx, anomalyID) up to the loop: the cached anomaly, or
\* ErrAnomalyNotFound when allGet is set
GetAnomalyCall ==
    /\ svc.pc = "idle"
    /\ svc.last.n < MaxGets
    /\ \E anomalyID \in AnomalyIDs :
          LET s == [svc EXCEPT !.cur = [anomalyID |-> anomalyID, before |-> svc.r,
                                        calls |-> 0, ret |-> Nil, err |-> Nil,
                                        n |-> svc.last.n + 1]]
          IN  svc' = IF anomalyID \in DOMAIN svc.r.cacheAnomaly
                     THEN SvcReturn(s, svc.r.cacheAnomaly[anomalyID], Nil)
                     ELSE IF svc.r.allGet
                     THEN SvcReturn(s, Nil, ErrAnomalyNotFound)
                     ELSE [s EXCEPT !.pc = "loop"]
    /\ SvcFrame

\* case <-ctx.Done(): return types.Anomaly{}, ctx.Err()
GetAnomalyCancelled ==
    /\ svc.pc = "loop"
    /\ svc' = SvcReturn(svc, Nil, "context canceled")
    /\ SvcFrame

\* the answers getAnomalies may give for the next window: the last window
\* allowed is empty or holds the anomaly looked for
WindowAnswers ==
    IF Len(SelectSeq(svc.fetches, LAMBDA f : f.err = Nil)) + 1 < MaxWindows
    THEN SUBSET AnomalyIDs
    ELSE {ids \in SUBSET AnomalyIDs : ids = {} \/ svc.cur.anomalyID \in ids}

\* one round of the loop: getAnomalies fails, or answers
GetAnomalyRound ==
    /\ svc.pc = "loop"
    /\ \/ /\ Len(svc.fetches) < MaxWindows + 1
          /\ LET s == [svc EXCEPT
                          !.cur.calls = @ + 1,
                          !.fetches = Append(@, [interval |-> svc.r.dateInterval,
                                                 ids |-> {}, err |-> "ThrottlingException"])]
             IN  svc' = SvcReturn(s, Nil, "ThrottlingException")
       \/ \E ids \in WindowAnswers :
             LET anomaly == AnomaliesOf(ids, svc.r.dateInterval)
                 r == AfterGetAnomalies(svc.r, anomaly)
                 s == [svc EXCEPT
                          !.r = r,
                          !.cur.calls = @ + 1,
                          !.fetches = Append(@, [interval |-> svc.r.dateInterval,
                                                 ids |-> ids, err |-> Nil])]
             IN  svc' = IF anomaly = {}
                        THEN SvcReturn(s, Nil, ErrAnomalyNotFound)
                        ELSE IF svc.cur.anomalyID \in DOMAIN r.cacheAnomaly
                        THEN SvcReturn(s, r.cacheAnomaly[svc.cur.anomalyID], Nil)
                        ELSE s
    /\ SvcFrame

NextService == GetAnomalyCall \/ GetAnomalyCancelled \/ GetAnomalyRound

SpecService == InitService /\ [][NextService]_vars

\* --------------------------------- Handler.postAnomalyDetectedMessage
\* Handlers that process SNS notifications at the same time, against one
\* Slack channel and one DynamoDB table. A step is a handler's work up to
\* and including one call of DynamoDB or Slack. A Slack timestamp is a
\* number, 0 for the empty string.
Handlers == {"h1", "h2"}

\* h.slackTeamID, and the team of another installation on the same table
SlackTeam == "T1"

OtherTeam == "T2"

Impacts == {10, 20}

\* the key of the table: AnomalyID (hash) and SlackTeamID (range)
ItemKey(anomalyID, team) == <<anomalyID, team>>

\* GetAnomalySlackMessage that looks for the AnomalyID alone
GetAnomalySlackMessageAnyTeam(table, anomalyID, team, fails) ==
    IF fails THEN [msg |-> Nil, ok |-> FALSE, err |-> "failed to get item"]
    ELSE IF \E k \in DOMAIN table : k[1] = anomalyID
    THEN [msg |-> table[CHOOSE k \in DOMAIN table : k[1] = anomalyID],
          ok |-> TRUE, err |-> Nil]
    ELSE [msg |-> Nil, ok |-> FALSE, err |-> Nil]

\* h.GetAnomalySlackMessage(ctx, anomalyID): GetItem with the key of this
\* team; an item without the key attributes (no item) is "not found"
GetAnomalySlackMessage(table, anomalyID, team, fails) ==
    IF fails THEN [msg |-> Nil, ok |-> FALSE, err |-> "failed to get item"]
    ELSE IF ItemKey(anomalyID, team) \in DOMAIN table
    THEN [msg |-> table[ItemKey(anomalyID, team)], ok |-> TRUE, err |-> Nil]
    ELSE [msg |-> Nil, ok |-> FALSE, err |-> Nil]

\* h.SaveAnomalySlackMessage(ctx, m): PutItem under the condition that no
\* item with the key exists
SaveAnomalySlackMessage(table, m, team, fails) ==
    IF fails THEN [table |-> table, err |-> "failed to put item"]
    ELSE IF ItemKey(m.AnomalyID, team) \in DOMAIN table
    THEN [table |-> table, err |-> "ConditionalCheckFailedException"]
    ELSE [table |-> MapSet(table, ItemKey(m.AnomalyID, team),
                           [m EXCEPT !.SlackTeamID = team]),
          err |-> Nil]

\* &AnomalySlackMessage{AnomalyID: ..., SlackMessageTimestamp: ..., TotalImpact: ...}
AnomalySlackMessage(anomalyID, ts, impact) ==
    [AnomalyID |-> anomalyID, SlackTeamID |-> "", SlackMessageTimestamp |-> ts,
     TotalImpact |-> impact]

\* What is in the table and in the channel at the start: nothing; the
\* record and message of an earlier notification for the first anomaly; or
\* the record of another team for it
PriorStates ==
    { [table |-> EmptyMap, slack |-> <<>>],
      [table |-> MapSet(EmptyMap, ItemKey("anomaly-1", SlackTeam),
                        [AnomalySlackMessage("anomaly-1", 1, 10)
                             EXCEPT !.SlackTeamID = SlackTeam]),
       slack |-> << [kind |-> "top", ts |-> 1, thread |-> 0,
                     anomalyID |-> "anomaly-1", by |-> "prior"] >>],
      [table |-> MapSet(EmptyMap, ItemKey("anomaly-1", OtherTeam),
                        [AnomalySlackMessage("anomaly-1", 1, 10)
                             EXCEPT !.SlackTeamID = OtherTeam]),
       slack |-> <<>>] }

\* the local variables of a handler that has not started
NoRun ==
    [pc |-> "idle", anomalyID |-> "", impact |-> 0, graphs |-> 0, uploaded |-> 0,
     looked |-> FALSE, existed |-> FALSE, found |-> Nil, getErr |-> Nil,
     posted |-> FALSE, ts |-> 0, saveErr |-> Nil, err |-> Nil]

InitHandler ==
    /\ GraphUnused
    /\ TickerUnused
    /\ SecondUnused
    /\ ConcUnused
    /\ GenUnused
    /\ AcctUnused
    /\ PerUnused
    /\ PagUnused
    /\ SvcUnused
    /\ FbUnused
    /\ \E enable \in BOOLEAN, prior \in PriorStates :
          hnd = [enableDynamoDB |-> enable,
                 table   |-> IF enable THEN prior.table ELSE EmptyMap,
                 slack   |-> IF enable THEN prior.slack ELSE <<>>,
                 updates |-> <<>>,
                 puts    |-> <<>>,
                 run     |-> [h \in Handlers |-> NoRun]]

HndFrame == UNCHANGED <<gvars, tvars, ovars, xvars, per, pag, svc, fb>>

\* the timestamp Slack gives to the next message
NextTs == Len(hnd.slack) + 2

\* the handler returns err
HandlerFail(h, err) == [hnd EXCEPT !.run[h].pc = "failed", !.run[h].err = err]

\* a notification arrives: template data, message options and graphs
HandlerStart(h) ==
    /\ hnd.run[h].pc = "idle"
    /\ \E anomalyID \in AnomalyIDs, impact \in Impacts, n \in 0..MaxGraphs,
          ok \in BOOLEAN :
          LET st == [hnd EXCEPT !.run[h].anomalyID = anomalyID,
                                !.run[h].impact = impact,
                                !.run[h].graphs = n]
          IN  hnd' = IF ~ok THEN [HandlerFail(h, "failed to generate graphs")
                                     EXCEPT !.run[h].anomalyID = anomalyID]
                     ELSE [st EXCEPT !.run[h].pc =
                              IF hnd.enableDynamoDB THEN "get" ELSE "post"]
    /\ HndFrame

\* msg, ok, err := h.GetAnomalySlackMessage(ctx, a.AnomalyID)
HandlerGet(h) ==
    /\ hnd.run[h].pc = "get"
    /\ \E fails \in BOOLEAN :
          LET r == GetAnomalySlackMessage(hnd.table, hnd.run[h].anomalyID,
                                          SlackTeam, fails)
          IN  hnd' = [hnd EXCEPT
                         !.run[h].looked = TRUE,
                         !.run[h].existed =
                             ItemKey(hnd.run[h].anomalyID, SlackTeam) \in DOMAIN hnd.table,
                         !.run[h].found = r.msg,
                         !.run[h].getErr = r.err,
                         !.run[h].posted = r.ok,
                         !.run[h].ts = IF r.ok THEN r.msg.SlackMessageTimestamp ELSE 0,
                         !.run[h].pc = IF r.ok THEN "reply" ELSE "post"]
    /\ HndFrame

\* the update text, posted with slack.MsgOptionTS(ts)
HandlerReply(h) ==
    /\ hnd.run[h].pc = "reply"
    /\ \E fails \in BOOLEAN :
          hnd' = IF fails THEN HandlerFail(h, "failed to post message")
                 ELSE [hnd EXCEPT
                          !.slack = Append(@, [kind |-> "reply", ts |-> NextTs,
                                               thread |-> hnd.run[h].ts,
                                               anomalyID |-> hnd.run[h].anomalyID,
                                               by |-> h]),
                          !.run[h].pc = "update"]
    /\ HndFrame

\* h.client.UpdateMessageContext(ctx, h.channel, ts, opts...)
HandlerUpdate(h) ==
    /\ hnd.run[h].pc = "update"
    /\ \E fails \in BOOLEAN :
          hnd' = IF fails THEN HandlerFail(h, "failed to update message")
                 ELSE [hnd EXCEPT
                          !.updates = Append(@, [ts |-> hnd.run[h].ts, by |-> h]),
                          !.run[h].pc = "upload"]
    /\ HndFrame

\* if !posted: _, ts, err = h.client.PostMessageContext(ctx, h.channel, opts...)
HandlerPost(h) ==
    /\ hnd.run[h].pc = "post"
    /\ \E fails \in BOOLEAN :
          hnd' = IF fails THEN HandlerFail(h, "failed to post message")
                 ELSE [hnd EXCEPT
                          !.slack = Append(@, [kind |-> "top", ts |-> NextTs,
                                               thread |-> 0,
                                               anomalyID |-> hnd.run[h].anomalyID,
                                               by |-> h]),
                          !.run[h].ts = NextTs,
                          !.run[h].pc = IF hnd.enableDynamoDB THEN "save" ELSE "upload"]
    /\ HndFrame

\* h.SaveAnomalySlackMessage: an error is logged, not returned
HandlerSave(h) ==
    /\ hnd.run[h].pc = "save"
    /\ \E fails \in BOOLEAN :
          LET r == SaveAnomalySlackMessage(
                       hnd.table,
                       AnomalySlackMessage(hnd.run[h].anomalyID, hnd.run[h].ts,
                                           hnd.run[h].impact),
                       SlackTeam, fails)
          IN  hnd' = [hnd EXCEPT
                         !.table = r.table,
                         !.puts = IF r.err = Nil
                                  THEN Append(@, [key |-> ItemKey(hnd.run[h].anomalyID,
                                                                  SlackTeam),
                                                  by |-> h])
                                  ELSE @,
                         !.run[h].saveErr = r.err,
                         !.run[h].pc = "upload"]
    /\ HndFrame

\* one round of the loop over graphs: UploadFileV2Context with
\* ThreadTimestamp: ts
HandlerUpload(h) ==
    /\ hnd.run[h].pc = "upload"
    /\ hnd.run[h].uploaded < hnd.run[h].graphs
    /\ \E fails \in BOOLEAN :
          hnd' = IF fails THEN HandlerFail(h, "failed to upload file")
                 ELSE [hnd EXCEPT
                          !.slack = Append(@, [kind |-> "file", ts |-> NextTs,
                                               thread |-> hnd.run[h].ts,
                                               anomalyID |-> hnd.run[h].anomalyID,
                                               by |-> h]),
                          !.run[h].uploaded = @ + 1]
    /\ HndFrame

\* all graphs are uploaded: return nil
HandlerReturn(h) ==
    /\ hnd.run[h].pc = "upload"
    /\ hnd.run[h].uploaded = hnd.run[h].graphs
    /\ hnd' = [hnd EXCEPT !.run[h].pc = "done"]
    /\ HndFrame

NextHandler ==
    \E h \in Handlers :
        \/ HandlerStart(h)
        \/ HandlerGet(h)
        \/ HandlerReply(h)
        \/ HandlerUpdate(h)
        \/ HandlerPost(h)
        \/ HandlerSave(h)
        \/ HandlerUpload(h)
        \/ HandlerReturn(h)

SpecHandler == InitHandler /\ [][NextHandler]_vars

\* ------------------------------------------- Handler.ProvideFeedback
\* Interactive requests of Slack (a button of the anomaly message was
\* pressed), handled one after the other by processInteractiveMessage.
actionsYesID == "yes"

actionsNoID == "no"

actionsPlanedActivityID == "planed_activity"

\* the action ids of the requests
ActionIDs ==
    {actionsYesID, actionsNoID, actionsPlanedActivityID, "planned_activity", "YES", ""}

\* canyon: not used; used, and this is the front; used, and this is the worker
RequestModes == {"plain", "front", "worker"}

\* the switch of ProvideFeedback: types.AnomalyFeedbackType, Nil for the
\* default case
FeedbackType(actionID) ==
    CASE actionID = actionsYesID            -> "YES"
      [] actionID = actionsNoID             -> "NO"
      [] actionID = actionsPlanedActivityID -> "PLANNED_ACTIVITY"
      [] OTHER                              -> Nil

\* ProvideFeedback without the default case: the zero feedback type is sent
ProvideFeedbackNoDefault(anomalyID, actionID, apiFails) ==
    [calls |-> << [AnomalyId |-> anomalyID,
                   Feedback |-> IF FeedbackType(actionID) = Nil THEN ""
                                ELSE FeedbackType(actionID)] >>,
     err   |-> IF apiFails THEN "ThrottlingException" ELSE Nil]

\* h.ProvideFeedback(ctx, anomalyID, actionID): the ProvideAnomalyFeedback
\* calls it makes and the error it returns
ProvideFeedback(anomalyID, actionID, apiFails) ==
    IF FeedbackType(actionID) = Nil
    THEN [calls |-> <<>>, err |-> "invalid action id"]
    ELSE [calls |-> << [AnomalyId |-> anomalyID,
                        Feedback |-> FeedbackType(actionID)] >>,
          err   |-> IF apiFails THEN "ThrottlingException" ELSE Nil]

\* processInteractiveMessage from the ProvideFeedback call on: the calls of
\* the AWS API, the messages posted to the thread and the status answered
AnswerFeedback(anomalyID, actionID, isWorker, apiFails) ==
    LET r == ProvideFeedback(anomalyID, actionID, apiFails)
    IN  IF r.err # Nil
        THEN [calls  |-> r.calls,
              posts  |-> IF isWorker THEN << [kind |-> "error", text |-> r.err] >>
                         ELSE <<>>,
              status |-> 500,
              err    |-> r.err]
        ELSE [calls  |-> r.calls,
              posts  |-> << [kind |-> "success", text |-> anomalyID] >>,
              status |-> 200,
              err    |-> Nil]

\* processInteractiveMessage: the front hands the request to the worker
\* (or fails to), a request without an action of the block is answered 200
ProcessInteractiveMessage(mode, hasAction, sent, anomalyID, actionID, apiFails) ==
    IF mode = "front"
    THEN [calls |-> <<>>, posts |-> <<>>, status |-> IF sent THEN 200 ELSE 500,
          err |-> Nil, provided |-> FALSE]
    ELSE IF ~hasAction
    THEN [calls |-> <<>>, posts |-> <<>>, status |-> 200, err |-> Nil,
          provided |-> FALSE]
    ELSE With(AnswerFeedback(anomalyID, actionID, mode = "worker", apiFails),
              LAMBDA a : [calls |-> a.calls, posts |-> a.posts, status |-> a.status,
                          err |-> a.err, provided |-> TRUE])

NoRequest ==
    [n |-> 0, mode |-> "plain", anomalyID |-> "", actionID |-> "",
     answer |-> [calls |-> <<>>, posts |-> <<>>, status |-> 0, err |-> Nil,
                 provided |-> FALSE]]

InitFeedback ==
    /\ GraphUnused
    /\ TickerUnused
    /\ SecondUnused
    /\ ConcUnused
    /\ GenUnused
    /\ AcctUnused
    /\ PerUnused
    /\ PagUnused
    /\ SvcUnused
    /\ HndUnused
    /\ fb = [pc |-> "serve", calls |-> <<>>, posts |-> <<>>, last |-> NoRequest]

\* one interactive request that takes part in the feedback
InteractiveRequest ==
    /\ fb.last.n < MaxFeedbacks
    /\ \E mode \in RequestModes, anomalyID \in AnomalyIDs, actionID \in ActionIDs,
          apiFails \in BOOLEAN :
          \E a \in {ProcessInteractiveMessage(mode, TRUE, TRUE, anomalyID,
                                              actionID, apiFails)} :
              /\ apiFails => a.calls # <<>>
              /\ fb' = [fb EXCEPT
                           !.calls = @ \o a.calls,
                           !.posts = @ \o a.posts,
                           !.last = [n |-> fb.last.n + 1, mode |-> mode,
                                     anomalyID |-> anomalyID, actionID |-> actionID,
                                     answer |-> a]]
    /\ UNCHANGED <<gvars, tvars, ovars, xvars, per, pag, svc, hnd>>

\* a request that ends before the feedback: no action of the block in the
\* payload, or the hand-over to the worker fails
OtherRequest ==
    /\ fb.last.n < MaxFeedbacks
    /\ \E mode \in RequestModes, hasAction \in BOOLEAN, sent \in BOOLEAN :
          /\ (mode = "front" /\ ~sent) \/ (mode # "front" /\ ~hasAction /\ sent)
          /\ \E a \in {ProcessInteractiveMessage(mode, hasAction, sent, "", "", FALSE)} :
                fb' = [fb EXCEPT
                          !.last = [n |-> fb.last.n + 1, mode |-> mode,
                                    anomalyID |-> "", actionID |-> "",
                                    answer |-> a]]
    /\ UNCHANGED <<gvars, tvars, ovars, xvars, per, pag, svc, hnd>>

NextFeedback == InteractiveRequest \/ OtherRequest

SpecFeedback == InitFeedback /\ [][NextFeedback]_vars

\* ------------------------------------------------- what was inserted
RECURSIVE Sum(_, _)
\* the sum of f[x] over the x in S
Sum(f, S) ==
    IF S = {} THEN 0
    ELSE With(CHOOSE x \in S : TRUE, LAMBDA x : f[x] + Sum(f, S \ {x}))

\* The reference values of the claims, read off the insertions (written)
\* and not off the store.
WLabels == {id[1] : id \in DOMAIN written}

WDates == {id[2] : id \in DOMAIN written}

\* the dates of S in ascending order
Ascending(S) ==
    [i \in 1..Cardinality(S) |->
        CHOOSE d \in S : Cardinality({e \in S : e < d}) = i - 1]

WCost(l, d) == IF <<l, d>> \in DOMAIN written THEN written[<<l, d>>] ELSE 0

\* the total of every label
WTotals ==
    With(WDates, LAMBDA D : [l \in WLabels |-> Sum([d \in D |-> WCost(l, d)], D)])

\* the sum of the inserted costs of the labels of S at date d
WSumAt(S, d) == Sum([l \in S |-> WCost(l, d)], S)

\* the total of a vector
Total(v) == Sum(v, DOMAIN v)

\* the position of every label in the order (total descending, label
\* ascending)
WRanks ==
    With(WTotals, LAMBDA tot :
        [l \in WLabels |->
            1 + Cardinality({m \in WLabels :
                    \/ tot[m] > tot[l]
                    \/ tot[m] = tot[l] /\ StrLess(m, l)})])

\* the sum of the drawn series at the i-th date
DrawnSumAt(i) == Sum([k \in 1..Len(out.bars) |-> out.bars[k].values[i]],
                     1..Len(out.bars))

\* ----------------------------------------------------------------- claims
\* C1: total preservation. After the reduction step of WriteTo, for every
\* date of the axis the costs of the reduced (drawn) series sum to the costs
\* of all inserted series at that date, for any labels, collapsed or not.
C1_TotalPreserved ==
    out.done =>
        \A i \in 1..Len(out.tickDates) :
            DrawnSumAt(i) = WSumAt(WLabels, out.tickDates[i])

\* C2: cap invariant. The reduced series list that WriteTo draws has at most
\* maxSeries = 10 entries, for any number of distinct input labels.
C2_AtMostMaxSeries ==
    out.done => Len(out.bars) <= maxSeries /\ Len(out.legends) <= maxSeries

\* C2 witness: more than maxSeries labels were inserted and 10 series drawn.
C2_Witness ==
    /\ out.done
    /\ Cardinality(WLabels) > maxSeries + 1
    /\ Len(out.bars) = maxSeries

\* C3: with more than 10 distinct labels the reduced list is the top 9 labels
\* in (total descending, label ascending) order followed by "Others" in last
\* position, and the "Others" vector is the element-wise sum of the dense
\* vectors of all labels outside the top 9, whatever its own total.
C3_TopNineThenOthers ==
    (out.done /\ Cardinality(WLabels) > maxSeries) =>
        \E rank \in {WRanks}, axis \in {Ascending(WDates)} :
            /\ Len(out.legends) = maxSeries
            /\ Len(out.bars) = maxSeries
            /\ \A k \in 1..(maxSeries - 1) :
                  /\ rank[out.legends[k]] = k
                  /\ out.bars[k].legend = out.legends[k]
            /\ out.legends[maxSeries] = Others
            /\ out.bars[maxSeries].legend = Others
            /\ out.bars[maxSeries].values =
                  [i \in 1..Len(axis) |->
                      WSumAt({l \in WLabels : rank[l] > maxSeries - 1}, axis[i])]

\* C3 witness: a collapse whose "Others" series is last although its total
\* exceeds the total of the first series.
C3_Witness ==
    /\ out.done
    /\ Cardinality(WLabels) > maxSeries
    /\ out.bars[maxSeries].legend = Others
    /\ Others \notin WLabels
    /\ Total(out.bars[maxSeries].values) > Total(out.bars[1].values)

\* C4: series are ordered by total cost descending, ties by label ascending;
\* with at most 10 distinct labels the reduced list is all labels in exactly
\* this order, each with its unchanged dense vector, and no "Others" series
\* is created.
C4_SortedAndKept ==
    out.done =>
        \E rank \in {WRanks}, axis \in {Ascending(WDates)} :
            /\ Len(out.sorted) = Cardinality(WLabels)
            /\ \A k \in 1..Len(out.sorted) : rank[out.sorted[k]] = k
            /\ Cardinality(WLabels) <= maxSeries =>
                  /\ out.legends = out.sorted
                  /\ Len(out.bars) = Cardinality(WLabels)
                  /\ \A k \in 1..Len(out.bars) :
                        /\ out.bars[k].legend = out.sorted[k]
                        /\ out.bars[k].values =
                              [i \in 1..Len(axis) |-> WCost(out.sorted[k], axis[i])]

\* C4 witness: ten labels are drawn as they are, in an order that needs both
\* the totals and the tie-break.
C4_Witness ==
    /\ out.done
    /\ Cardinality(WLabels) = maxSeries
    /\ Len(out.bars) = maxSeries
    /\ \E j, k \in 1..Len(out.bars) :
          /\ j < k
          /\ Total(out.bars[j].values) = Total(out.bars[k].values)
    /\ \E j, k \in 1..Len(out.bars) :
          Total(out.bars[j].values) > Total(out.bars[k].values)

\* the stored cost of (l, d), and whether the store has the pair
Has(g, l, d) == l \in DOMAIN g.dataPoints /\ d \in DOMAIN g.dataPoints[l]

\* C6: dense alignment. The vector WriteTo materializes for every label has
\* one element per distinct recorded date, the i-th being the cost recorded
\* for the label at the i-th date in ascending order and 0 where the label
\* has no point.
C6_DenseAligned ==
    out.done =>
        /\ DOMAIN out.dense = WLabels
        /\ \E axis \in {Ascending(WDates)} :
              \A l \in WLabels :
                 /\ Len(out.dense[l]) = Cardinality(WDates)
                 /\ \A i \in 1..Len(axis) : out.dense[l][i] = WCost(l, axis[i])

\* C6 witness: one label only at the first date, another only at the second.
C6_Witness ==
    /\ out.done
    /\ WDates = {1, 2}
    /\ \E a, b \in WLabels :
          /\ <<a, 1>> \in DOMAIN written /\ <<a, 2>> \notin DOMAIN written
          /\ <<b, 2>> \in DOMAIN written /\ <<b, 1>> \notin DOMAIN written
          /\ written[<<a, 1>>] # 0 /\ written[<<b, 2>>] # 0
          /\ out.dense[a] = <<written[<<a, 1>>], 0>>
          /\ out.dense[b] = <<0, written[<<b, 2>>]>>

\* C7: last write wins. AddDataPoint(t, c, L) leaves c as the value stored
\* for (L, t), whatever was stored before, and changes the value of no other
\* (label, date) pair; the value WriteTo renders for a pair is the cost of
\* the last insertion for it.
C7_LastWriteWins ==
    /\ [][call' = "AddDataPoint" =>
            /\ Has(graph', args'[3], args'[1])
            /\ graph'.dataPoints[args'[3]][args'[1]] = args'[2]
            /\ \A l \in DOMAIN graph'.dataPoints :
                  \A d \in DOMAIN graph'.dataPoints[l] :
                     <<l, d>> # <<args'[3], args'[1]>> =>
                        /\ Has(graph, l, d)
                        /\ graph'.dataPoints[l][d] = graph.dataPoints[l][d]
            /\ \A l \in DOMAIN graph.dataPoints :
                  \A d \in DOMAIN graph.dataPoints[l] : Has(graph', l, d)]_vars
    /\ [][call' = "WriteTo" =>
            \A id \in DOMAIN written :
               \E i \in 1..Len(out'.tickDates) :
                  /\ out'.tickDates[i] = id[2]
                  /\ out'.dense[id[1]][i] = written[id]]_vars

\* C7 witness: an insertion has replaced a different, non-zero cost.
C7_Witness ==
    /\ call = "AddDataPoint"
    /\ replaced.had
    /\ replaced.cost # 0
    /\ replaced.cost # args[2]
    /\ graph.dataPoints[args[3]][args[1]] = args[2]

\* the ticks of the last Ticks call that carry a label
Labelled == {k \in 1..Len(tret.ticks) : tret.ticks[k].label # <<>>}

\* ceil(n / m) for m > 0
CeilDiv(n, m) == CHOOSE q \in 0..n : q * m >= n /\ (q - 1) * m < n

\* C8: Dates returns every recorded date exactly once in strictly ascending
\* order; the result depends on the set of recorded dates only, not on the
\* order in which they were recorded or on a date being recorded twice.
C8_DatesSortedOnce ==
    tret.op = "Dates" =>
        /\ Range(tret.dates) = recorded
        /\ Len(tret.dates) = Cardinality(recorded)
        /\ \A i, j \in 1..Len(tret.dates) : i < j => tret.dates[i] < tret.dates[j]

\* C8 witness: Dates has returned dates of which the last one recorded was
\* not the latest (the dates were recorded out of order).
C8_Witness ==
    /\ tret.op = "Dates"
    /\ tleft = 0
    /\ Len(tret.dates) >= 3
    /\ \E d \in recorded : (d + 1) \notin recorded /\ (d + 2) \in recorded

\* C9: no stale ticks. After any interleaving of AddDate, Dates and Ticks
\* calls, Dates returns exactly the sorted recorded dates and Ticks has a
\* tick for every recorded date in its range, also for a date recorded after
\* the cache was filled: AddDate clears the cache, and a cache that is set
\* holds the recorded dates.
C9_NoStaleTicks ==
    /\ tret.op = "AddDate" => ticker.cache.isNil
    /\ ~ticker.cache.isNil => ticker.cache.elems = Ascending(recorded)
    /\ tret.op = "Dates" => tret.dates = Ascending(recorded)
    /\ tret.op = "Ticks" =>
          \A i \in 0..(Cardinality(recorded) - 1) :
             (2 * i >= tret.minH /\ 2 * i <= tret.maxH) =>
                \E k \in 1..Len(tret.ticks) :
                   /\ tret.ticks[k].value = i
                   /\ tret.ticks[k].label
                         \in {<<>>, FormatDate(Ascending(recorded)[i + 1])}

\* C9 witness: Dates returns a date that was recorded after the cache had
\* been filled.
C9_Witness ==
    /\ tret.op = "Dates"
    /\ ~lastCache.isNil
    /\ \E d \in Range(tret.dates) : d \notin Range(lastCache.elems)

\* C10: tick decimation bound. For n >= 1 recorded dates and any visible
\* range, Ticks returns at most maxLabels = 8 ticks with a non-empty label,
\* and the labelled ticks are ceil(n / 8) positions apart.
C10_LabelsBounded ==
    (tret.op = "Ticks" /\ recorded # {}) =>
        /\ Cardinality(Labelled) <= maxLabels
        /\ \A j, k \in Labelled :
              (j < k /\ \A m \in Labelled : ~(j < m /\ m < k)) =>
                 tret.ticks[k].value - tret.ticks[j].value
                    = CeilDiv(Cardinality(recorded), maxLabels)

\* C10 witness: 30 dates, of which exactly 8 are labelled, 4 apart.
C10_Witness ==
    /\ tret.op = "Ticks"
    /\ Cardinality(recorded) = 30
    /\ Cardinality(Labelled) = maxLabels
    /\ \E j, k \in Labelled : tret.ticks[k].value - tret.ticks[j].value = 4

\* C11: Ticks(min, max) returns exactly one tick for each date index i with
\* min <= i <= max, in ascending order of i and with value i; the label of
\* the tick is the date of index i as YYYY-MM-DD when trunc(i - min) is a
\* multiple of ceil(n / maxLabels) and empty otherwise; with n <= maxLabels
\* dates every tick is labelled.
C11_TicksExact ==
    tret.op = "Ticks" =>
        \E axis \in {Ascending(recorded)} :
            LET n       == Len(axis)
                minH    == tret.minH
                maxH    == tret.maxH
                inside  == {i \in 0..(n - 1) : 2 * i >= minH /\ 2 * i <= maxH}
                stride  == CeilDiv(n, maxLabels)
                \* trunc(i - min), where i - min = (2i - minH) / 2 >= 0
                trunc(i) == CHOOSE z \in 0..(n + 2) :
                                2 * z <= 2 * i - minH /\ 2 * i - minH < 2 * z + 2
                onStride(i) == \E q \in 0..(n + 2) : trunc(i) = q * stride
            IN  /\ Len(tret.ticks) = Cardinality(inside)
                /\ \A k \in 1..Len(tret.ticks) :
                      LET tk == tret.ticks[k]
                      IN  /\ tk.value \in inside
                          /\ k > 1 => tret.ticks[k - 1].value < tk.value
                          /\ tk.label = IF onStride(tk.value)
                                        THEN FormatDate(axis[tk.value + 1])
                                        ELSE <<>>
                          /\ Len(FormatDate(axis[tk.value + 1])) = 10
                          /\ n <= maxLabels => tk.label # <<>>

\* C11 witness: Ticks on more than maxLabels dates over a range that leaves
\* some dates out returned labelled and unlabelled ticks.
C11_Witness ==
    /\ tret.op = "Ticks"
    /\ Cardinality(recorded) > maxLabels
    /\ Len(tret.ticks) > 2
    /\ Len(tret.ticks) < Cardinality(recorded)
    /\ \E k \in 1..Len(tret.ticks) : tret.ticks[k].label = <<>>
    /\ \E k \in 1..Len(tret.ticks) : tret.ticks[k].label # <<>>

\* the AddDataPoint calls <<producer, number>> counted as returned by fin
CallsDone(fin) == UNION {{<<p, i>> : i \in 1..fin[p]} : p \in Producers}

\* the orders in which the calls of S can be made one after the other
Orders(S) ==
    {f \in [1..Cardinality(S) -> S] : \A i, j \in DOMAIN f : i # j => f[i] # f[j]}

\* the graph after the calls of f made one after the other on the loaded graph
Sequential(f) ==
    AddAll(conc.base, [k \in DOMAIN f |-> conc.issued[f[k][1]][f[k][2]]])

\* the same store and the same date set
SameStore(g1, g2) ==
    /\ g1.dataPoints = g2.dataPoints
    /\ g1.ticker.dates = g2.ticker.dates

\* C12: concurrent insertion is safe. Whenever every AddDataPoint call issued
\* by the producers has returned (and no WriteTo has run), the store and the
\* date set are those that some sequential order of the same calls produces,
\* and the date set contains the date of every stored point.
C12_AddsSerializable ==
    (/\ conc.pc[Renderer] \in {"idle", "lock"}
     /\ \A p \in Producers : conc.pc[p] = "idle") =>
        /\ \E f \in Orders(CallsDone(conc.finished)) : SameStore(Sequential(f), graph)
        /\ \A l \in DOMAIN graph.dataPoints :
              DOMAIN graph.dataPoints[l] \subseteq graph.ticker.dates

\* C12 witness: the two producers have each inserted a point for the same
\* new label at different dates, and both points and dates are stored.
C12_Witness ==
    /\ conc.pc[Renderer] = "idle"
    /\ \A p \in Producers : conc.pc[p] = "idle" /\ conc.finished[p] = 1
    /\ conc.issued["p1"][1][3] = conc.issued["p2"][1][3]
    /\ conc.issued["p1"][1][1] # conc.issued["p2"][1][1]
    /\ conc.issued["p1"][1][3] \notin DOMAIN conc.base.dataPoints
    /\ DOMAIN graph.dataPoints[conc.issued["p1"][1][3]] =
          {conc.issued["p1"][1][1], conc.issued["p2"][1][1]}

\* C13: consistent snapshot. What a WriteTo that ran among concurrent
\* AddDataPoint calls returns is what WriteTo returns for the store as it was
\* when WriteTo took the lock; that store is the result of whole insertions
\* only (those that had returned), and every dense vector has the length of
\* the axis.
C13_RenderSnapshot ==
    conc.pc[Renderer] = "done" =>
        /\ out = WriteTo(conc.snap, conc.title, conc.yLabel, conc.order).ret
        /\ \E f \in Orders(CallsDone(conc.snapDone)) :
              SameStore(Sequential(f), conc.snap)
        /\ \A l \in DOMAIN out.dense : Len(out.dense[l]) = Len(out.tickDates)

\* C13 witness: WriteTo returned two or more series while a producer that
\* had called AddDataPoint was still waiting for the lock, after another
\* producer's insertion.
C13_Witness ==
    /\ conc.pc[Renderer] = "done"
    /\ out.done
    /\ Len(out.bars) >= 2
    /\ \E p \in Producers : conc.snapDone[p] = 1
    /\ \E p \in Producers :
          /\ conc.pc[p] = "lock"
          /\ conc.finished[p] = 0
          /\ conc.args[p][1] \notin conc.snap.ticker.dates

\* C16: rendering fails atomically. A WriteTo that returns an error returns
\* no writer. A Generate in which a query, a parse, a render or a write
\* failed returns an error and no graphs (those built for earlier root
\* causes are dropped), after one failure and without trying a root cause
\* twice; a Generate that returns no error returns one graph for each root
\* cause, in the order of the root causes.
C16_FailsAtomically ==
    /\ (out.done /\ out.err # Nil) => out.w = Nil
    /\ gen.pc = "returned" =>
          /\ gen.failures > 0 <=> gen.ret.err # Nil
          /\ gen.ret.err # Nil =>
                /\ gen.ret.graphs.isNil
                /\ gen.ret.graphs.elems = <<>>
                /\ gen.failures = 1
                /\ gen.renders <= gen.i
                /\ gen.writes <= gen.i
          /\ gen.ret.err = Nil =>
                /\ Len(gen.ret.graphs.elems) = Len(gen.causes)
                /\ \A k \in 1..Len(gen.causes) :
                      gen.ret.graphs.elems[k].title = gen.causes[k]
                /\ gen.renders = Len(gen.causes)
                /\ gen.writes = Len(gen.causes)

\* C16 witness: Generate returned an error and no graphs after it had built
\* the graph of an earlier root cause, and the failure was WriteTo's.
C16_Witness ==
    /\ gen.pc = "returned"
    /\ gen.ret.err # Nil
    /\ gen.ret.graphs.isNil
    /\ Len(gen.graphs) >= 1
    /\ out.done
    /\ out.err # Nil
    /\ out.w = Nil

\* C19: the size of every graph that Generate returns is the number of bytes
\* that can be read from the graph's reader.
C19_SizeIsLength ==
    /\ gen.pc \in {"loop", "pages", "write", "returned"} =>
          \A k \in 1..Len(gen.graphs) : gen.graphs[k].size = gen.graphs[k].r
    /\ gen.pc = "returned" =>
          \A k \in 1..Len(gen.ret.graphs.elems) :
              gen.ret.graphs.elems[k].size = gen.ret.graphs.elems[k].r

\* C19 witness: Generate returned two graphs of different sizes.
C19_Witness ==
    /\ gen.pc = "returned"
    /\ gen.ret.err = Nil
    /\ Len(gen.ret.graphs.elems) = 2
    /\ gen.ret.graphs.elems[1].size # gen.ret.graphs.elems[2].size
    /\ gen.ret.graphs.elems[2].r = gen.ret.graphs.elems[2].size

\* C20: within the hour for which an answer is cached, the organizations
\* API is not called again for the same account: two calls for one account
\* ID are at least an hour apart (from the end of the first to the start of
\* the second), however many lookups there are, also when the first call
\* failed; a lookup answered from the cache after a failed call returns the
\* error, and the label is then the raw account ID.
C20_OneCallPerAccount ==
    /\ \A a \in AccountIDs :
          LET calls == acct.apiCalls[a]
          IN  /\ \A i, j \in 1..Len(calls) :
                    i < j => calls[j].start >= calls[i].done + Hour
              /\ \A c \in Callers :
                    (acct.pc[c] = "store" /\ acct.id[c] = a) =>
                        \A i \in 1..Len(calls) : acct.start[c] >= calls[i].done + Hour
    /\ \A c \in Callers :
          LET l == acct.last[c]
          IN  (l.hit /\ ~acct.apiCalls[l.accountID][l.after].ok) =>
                  /\ l.err # Nil
                  /\ l.label = l.accountID

\* C20 witness: an account whose one lookup failed was looked up again by
\* both callers within the hour, and no second API call was made.
C20_Witness ==
    \E a \in AccountIDs :
        /\ Len(acct.apiCalls[a]) = 1
        /\ ~acct.apiCalls[a][1].ok
        /\ acct.now < acct.apiCalls[a][1].done + Hour
        /\ \A c \in Callers :
              /\ acct.pc[c] = "idle"
              /\ acct.last[c].accountID = a
              /\ acct.last[c].hit
              /\ acct.last[c].label = a

\* C29 as stated: a lookup answered from the cache returns exactly the pair
\* (output, error) that the most recent call of the organizations API for
\* that account returned: the account and a nil error after a call that
\* succeeded, a nil output and the error after a call that failed.
C29_CacheCoherent ==
    \A c \in Callers :
        LET l == acct.last[c]
        IN  l.hit =>
                IF acct.apiCalls[l.accountID][l.after].ok
                THEN l.name = AccountName(l.accountID) /\ l.err = Nil
                ELSE l.name = Nil /\ l.err # Nil

\* C28 as stated: after the reduction step of WriteTo, for any labels, the
\* ordered legend list holds no label twice and has as many entries as the
\* map of series vectors, and every drawn entry has its own vector: a kept
\* label the dense vector of that label, "Others" (the last entry of a
\* collapse) the sum of the dense vectors of the dropped labels.
C28_LegendsAreKeys ==
    out.done =>
        LET n         == Len(out.legends)
            collapsed == Cardinality(DOMAIN out.dense) > maxSeries
            dropped   == {l \in DOMAIN out.dense :
                             \A k \in 1..(n - 1) : out.legends[k] # l}
        IN  /\ \A j, k \in 1..n : j # k => out.legends[j] # out.legends[k]
            /\ n = Cardinality(DOMAIN out.dataPoints)
            /\ Len(out.bars) = n
            /\ \A k \in 1..n :
                  /\ out.bars[k].legend = out.legends[k]
                  /\ out.bars[k].values =
                        IF collapsed /\ k = n
                        THEN [i \in 1..Len(out.tickDates) |->
                                 Sum([l \in dropped |-> out.dense[l][i]], dropped)]
                        ELSE out.dense[out.legends[k]]

ParseDate(str) ==
    DaysBefore[(str[6] - 48) * 10 + (str[7] - 48)]
        + (str[9] - 48) * 10 + (str[10] - 48)

\* the days of the query period p: Start included, End excluded
PeriodDays(p) == {d \in ParseDate(p.Start)..(ParseDate(p.End) - 1) : TRUE}

\* C22 as stated: for every start date, end date (start <= end) and current
\* day, every interval [Start, End) that generateTimePeriods returns holds
\* days of one calendar month only.
C22_PeriodsInOneMonth ==
    per.pc = "done" =>
        \A i \in 1..Len(per.timePeriods) :
            \A d, e \in PeriodDays(per.timePeriods[i]) : MonthOf(d) = MonthOf(e)

\* C24: the pagination protocol of a fetch loop over either paginator. A
\* loop that has ended made at least one request; the first request carries
\* no page token, whatever token the caller's parameters hold; each later
\* request carries the NextPageToken of the response before it; the loop
\* goes on after a page whose token is not empty and ends after the first
\* page whose token is nil or empty; and NextPage called when HasMorePages
\* is false returns (nil, nil) without calling the API.
C24_PaginationProtocol ==
    LET n == Len(pag.requests)
        terminal(a) == a.err = Nil /\ a.token \in {Nil, ""}
    IN  /\ pag.pc \in {"end", "failed"} => n >= 1
        /\ n >= 1 => pag.requests[1] = Nil
        /\ \A i \in 2..n :
              pag.answers[i - 1].err = Nil =>
                  pag.requests[i] = pag.answers[i - 1].token
        /\ \A i \in 1..(n - 1) : ~terminal(pag.answers[i])
        /\ pag.pc = "end" => terminal(pag.answers[n])
        /\ (n >= 1 /\ terminal(pag.answers[n])) =>
              /\ pag.pc # "body"
              /\ ~PaginatorHasMorePages(pag.p)
        /\ (pag.pc = "body" /\ n >= 1) =>
              pag.answers[n].err = Nil /\ ~terminal(pag.answers[n])
        /\ (pag.last.calls > 0 /\ ~pag.last.hadMore) =>
              /\ ~pag.last.called
              /\ pag.last.page = Nil
              /\ pag.last.err = Nil

\* C24 witness: a loop of three requests ended by an empty token, started
\* from parameters that held a token, and NextPage was called after it.
C24_Witness ==
    /\ pag.pc = "end"
    /\ pag.p.params.NextPageToken = "t0"
    /\ Len(pag.requests) = 3
    /\ pag.answers[3].token = ""
    /\ pag.last.calls = 4
    /\ ~pag.last.called

\* C25: a failed page request leaves the paginator as it was. When the API
\* call inside NextPage returns an error, NextPage returns that error and a
\* nil page, firstPage, nextToken and the caller's parameters keep their
\* values, HasMorePages is still true, and the loop stops at the first error.
C25_FailedPageKeepsPaginator ==
    /\ pag.last.err # Nil =>
          /\ pag.last.called
          /\ pag.last.err = pag.answers[Len(pag.answers)].err
          /\ pag.last.page = Nil
          /\ pag.p = pag.last.before
          /\ PaginatorHasMorePages(pag.p)
          /\ pag.last.inLoop => pag.pc = "failed"
    /\ pag.pc \in {"test", "body"} =>
          \A i \in 1..Len(pag.answers) : pag.answers[i].err = Nil
    /\ \A i \in 2..Len(pag.requests) :
          pag.answers[i - 1].err # Nil => pag.requests[i] = pag.requests[i - 1]

\* C25 witness: the second request of a loop failed, and so did a retry
\* made with NextPage after the loop; the paginator still holds the first
\* page's token.
C25_Witness ==
    /\ pag.pc = "failed"
    /\ Len(pag.answers) = 3
    /\ pag.answers[1].err = Nil
    /\ pag.answers[2].err # Nil
    /\ pag.answers[3].err # Nil
    /\ pag.requests[3] = pag.answers[1].token
    /\ pag.p.nextToken = pag.answers[1].token
    /\ ~pag.p.firstPage

\* the windows answered without an error, in the order they were fetched
Answered == SelectSeq(svc.fetches, LAMBDA f : f.err = Nil)

\* the k-th 28-day window before now
Window(k) ==
    [StartDate |-> FormatDate(svc.now - WindowDays * k),
     EndDate   |-> FormatDate(svc.now - WindowDays * (k - 1))]

\* C26: GetAnomaly. An anomaly in the cache is returned without an API
\* call. Otherwise successive 28-day windows are fetched going backwards in
\* time, every fetched anomaly is cached, and the search stops at the first
\* window without anomalies, which sets allGet (or at the window that holds
\* the anomaly, which is returned). Once allGet is set, a lookup of an
\* uncached ID returns ErrAnomalyNotFound without an API call, and cached
\* IDs are still returned.
C26_GetAnomalySearch ==
    LET l == svc.last
        n == Len(Answered)
    IN  /\ (l.n > 0 /\ l.anomalyID \in DOMAIN l.before.cacheAnomaly) =>
              /\ l.calls = 0
              /\ l.err = Nil
              /\ l.ret = l.before.cacheAnomaly[l.anomalyID]
        /\ (l.n > 0 /\ l.anomalyID \notin DOMAIN l.before.cacheAnomaly
                /\ l.before.allGet) =>
              /\ l.calls = 0
              /\ l.ret = Nil
              /\ l.err = ErrAnomalyNotFound
        /\ \A k \in 1..n : Answered[k].interval = Window(k)
        /\ \A k \in 1..n : \A id \in Answered[k].ids :
              /\ id \in DOMAIN svc.r.cacheAnomaly
              /\ svc.r.cacheAnomaly[id].AnomalyId = id
        /\ \A k \in 1..(n - 1) : Answered[k].ids # {}
        /\ svc.r.allGet <=> (n > 0 /\ Answered[n].ids = {})
        /\ svc.r.allGet => svc.pc = "idle"
        /\ (svc.pc = "idle" /\ l.calls > 0 /\ l.err = ErrAnomalyNotFound) =>
              /\ svc.fetches[Len(svc.fetches)].err = Nil
              /\ svc.fetches[Len(svc.fetches)].ids = {}
        /\ (svc.pc = "idle" /\ l.calls > 0 /\ l.err = Nil) =>
              /\ l.anomalyID \in Answered[n].ids
              /\ l.ret = [AnomalyId |-> l.anomalyID, foundIn |-> Window(n)]
        /\ svc.pc = "loop" =>
              \A k \in 1..n : svc.cur.anomalyID \notin Answered[k].ids

\* C26 witness: a search that found an anomaly in the second window, a
\* later one that ended at the empty third window, and then a lookup of the
\* cached anomaly, answered without an API call.
C26_Witness ==
    /\ svc.pc = "idle"
    /\ svc.r.allGet
    /\ Len(Answered) = 3
    /\ svc.last.n = 3
    /\ svc.last.calls = 0
    /\ svc.last.err = Nil
    /\ svc.last.ret.foundIn = Window(2)
    /\ svc.last.before.allGet
    /\ DOMAIN svc.r.cacheAnomaly # AnomalyIDs

\* the messages of the given kind that handler h posted
PostedBy(h, kind) ==
    {i \in 1..Len(hnd.slack) : hnd.slack[i].kind = kind /\ hnd.slack[i].by = h}

\* the top-level anomaly messages in the channel for an anomaly
TopLevel(anomalyID) ==
    {i \in 1..Len(hnd.slack) :
        hnd.slack[i].kind = "top" /\ hnd.slack[i].anomalyID = anomalyID}

\* handler h is past the steps of the update path, or of the post
AfterUpdate(h) == hnd.run[h].posted /\ hnd.run[h].pc \in {"upload", "done"}

\* what C21 says of a handler, given whether it counts as having a record
RepeatedNotification(h, hasRecord) ==
    LET r == hnd.run[h]
    IN  /\ hasRecord =>
              /\ PostedBy(h, "top") = {}
              /\ r.ts = hnd.table[ItemKey(r.anomalyID, SlackTeam)].SlackMessageTimestamp
              /\ r.pc \in {"update", "upload", "done"} =>
                    \E i \in PostedBy(h, "reply") : hnd.slack[i].thread = r.ts
              /\ r.pc \in {"upload", "done"} =>
                    \E j \in 1..Len(hnd.updates) :
                        hnd.updates[j] = [ts |-> r.ts, by |-> h]
        /\ PostedBy(h, "top") # {} =>
              /\ ~hasRecord
              /\ Cardinality(PostedBy(h, "top")) = 1
              /\ PostedBy(h, "reply") = {}
              /\ \A i \in PostedBy(h, "top") : hnd.slack[i].ts = r.ts
              /\ (r.pc \in {"upload", "done"} /\ r.saveErr = Nil) =>
                    \E j \in 1..Len(hnd.puts) :
                        /\ hnd.puts[j].by = h
                        /\ hnd.puts[j].key = ItemKey(r.anomalyID, SlackTeam)
        /\ \A i \in PostedBy(h, "file") :
              /\ hnd.slack[i].thread = r.ts
              /\ r.ts # 0
        /\ r.pc = "done" => Cardinality(PostedBy(h, "file")) = r.graphs

\* C21 as stated: with the table enabled, when a record for the
\* notification's AnomalyID and this Slack team exists (at the handler's
\* lookup), the handler posts the total-impact update into the thread of
\* the recorded message and updates that message, and posts no new
\* top-level message; a new top-level message is posted, and its timestamp
\* saved, only when no record exists; graphs go to the thread of that
\* message in both cases.
C21_UpdateWhenRecordExists ==
    hnd.enableDynamoDB =>
        \A h \in Handlers :
            hnd.run[h].looked => RepeatedNotification(h, hnd.run[h].existed)

\* C21 amended: the same with "the lookup returned a record" in place of "a
\* record exists": a lookup that fails is only logged and counts as no
\* record found, so that a new top-level message is posted although a
\* record exists.
C21_UpdateWhenRecordFound ==
    hnd.enableDynamoDB =>
        \A h \in Handlers :
            hnd.run[h].looked =>
                /\ hnd.run[h].posted =>
                      /\ hnd.run[h].existed
                      /\ hnd.run[h].found.AnomalyID = hnd.run[h].anomalyID
                      /\ hnd.run[h].found.SlackTeamID = SlackTeam
                /\ RepeatedNotification(h, hnd.run[h].posted)
                /\ (hnd.run[h].existed /\ hnd.run[h].getErr = Nil) =>
                      hnd.run[h].posted

\* C21 witness: the first notification of an anomaly posted a top-level
\* message and saved it; the second one, for the same anomaly, found the
\* record, replied in the thread, updated the message and uploaded its
\* graph there; the record of another team was in the table throughout.
C21_Witness ==
    /\ hnd.enableDynamoDB
    /\ ItemKey("anomaly-1", OtherTeam) \in DOMAIN hnd.table
    /\ hnd.run["h1"].pc = "done"
    /\ hnd.run["h2"].pc = "done"
    /\ hnd.run["h1"].anomalyID = "anomaly-1"
    /\ hnd.run["h2"].anomalyID = "anomaly-1"
    /\ PostedBy("h1", "top") # {}
    /\ hnd.run["h1"].saveErr = Nil
    /\ hnd.run["h2"].posted
    /\ hnd.run["h2"].ts = hnd.run["h1"].ts
    /\ hnd.run["h2"].graphs = 1
    /\ Cardinality(TopLevel("anomaly-1")) = 1

\* C30 as stated: with the table enabled, for any interleaving of handlers
\* that process notifications for one AnomalyID, at most one top-level
\* message is posted for the anomaly and at most one record is written for
\* (AnomalyID, SlackTeamID).
C30_OneTopLevelMessage ==
    hnd.enableDynamoDB =>
        \A anomalyID \in AnomalyIDs :
            /\ Cardinality(TopLevel(anomalyID)) <= 1
            /\ Cardinality({j \in 1..Len(hnd.puts) :
                   hnd.puts[j].key = ItemKey(anomalyID, SlackTeam)}) <= 1

\* C23: feedback routing. For the last request that reached ProvideFeedback:
\* the action ids "yes", "no" and "planed_activity" give exactly one
\* ProvideAnomalyFeedback call, for the request's anomaly ID, with feedback
\* YES, NO and PLANNED_ACTIVITY; any other action id gives the error
\* "invalid action id" and no call of the AWS API, and the handler answers
\* 500 and posts no success message. A success message is posted only
\* together with the answer 200.
C23_FeedbackRouting ==
    LET l == fb.last
        a == fb.last.answer
        expected == [yes |-> "YES", no |-> "NO", planed_activity |-> "PLANNED_ACTIVITY"]
        success == {i \in 1..Len(a.posts) : a.posts[i].kind = "success"}
    IN  a.provided =>
            /\ l.actionID \in DOMAIN expected =>
                  a.calls = << [AnomalyId |-> l.anomalyID,
                                Feedback |-> expected[l.actionID]] >>
            /\ l.actionID \notin DOMAIN expected =>
                  /\ a.calls = <<>>
                  /\ a.err = "invalid action id"
                  /\ a.status = 500
                  /\ success = {}
            /\ a.err # Nil => a.status = 500 /\ success = {}
            /\ a.err = Nil => a.status = 200 /\ Cardinality(success) = 1
            /\ Len(fb.calls) >= Len(a.calls)
            /\ SubSeq(fb.calls, Len(fb.calls) - Len(a.calls) + 1, Len(fb.calls)) = a.calls

\* C23 witness: a "planed_activity" request sent its one call, and the next
\* request, with the action id "planned_activity", was refused by the worker
\* with 500 and an error message in the thread.
C23_Witness ==
    /\ fb.last.n = 2
    /\ fb.last.actionID = "planned_activity"
    /\ fb.last.mode = "worker"
    /\ fb.last.answer.status = 500
    /\ fb.last.answer.posts = << [kind |-> "error", text |-> "invalid action id"] >>
    /\ fb.calls = << [AnomalyId |-> "anomaly-2", Feedback |-> "PLANNED_ACTIVITY"] >>
    /\ Len(fb.posts) = 2

\* C14 as stated: the store is changed by AddDataPoint only. A WriteTo step
\* leaves the stored mapping label -> date -> cost as it was, and no step
\* removes a label or an entry.
C14_StoreChangedOnlyByAdd ==
    [][/\ call' = "WriteTo" => graph'.dataPoints = graph.dataPoints
       /\ \A l \in DOMAIN graph.dataPoints :
             /\ l \in DOMAIN graph'.dataPoints
             /\ DOMAIN graph.dataPoints[l] \subseteq DOMAIN graph'.dataPoints[l]]_vars

\* C15: WriteTo on a graph into which no point was inserted returns a writer
\* and a nil error, with no bar series, no legend entry and no tick.
C15_EmptyRenders ==
    (out.done /\ written = EmptyMap) =>
        /\ out.w # Nil
        /\ out.err = Nil
        /\ out.bars = <<>>
        /\ out.legend = <<>>
        /\ out.ticks = <<>>

\* C15 witness: WriteTo returned a writer for a graph without points.
C15_Witness ==
    /\ call = "WriteTo"
    /\ out.done
    /\ written = EmptyMap
    /\ graph.dataPoints = EmptyMap
    /\ graph.ticker.dates = {}
    /\ out.w = "png"

\* C17: with exactly one series drawn the legend has no entry; with two or
\* more it has one entry for every drawn series, in the order of the reduced
\* list, "Others" included when series were collapsed.
C17_LegendSuppressed ==
    out.done =>
        /\ Len(out.bars) = 1 => out.legend = <<>>
        /\ Len(out.bars) >= 2 =>
              out.legend = [k \in 1..Len(out.bars) |-> out.bars[k].legend]
        /\ Cardinality(WLabels) > maxSeries =>
              /\ Len(out.legend) = maxSeries
              /\ out.legend[maxSeries] = Others

\* C17 witness: a graph with one label was rendered without a legend entry.
C17_Witness ==
    /\ out.done
    /\ Cardinality(WLabels) = 1
    /\ Len(out.bars) = 1
    /\ out.legend = <<>>

\* C18: the series at position k < 10 of the reduced list has the k-th color
\* of the palette of 10 colors; a position past the palette has the one
\* fallback color (the palette is neither cycled nor indexed out of range).
C18_ColorsByPosition ==
    /\ Len(graphColors) = 10
    /\ out.done =>
          \A k \in 1..Len(out.bars) :
              /\ k <= Len(graphColors)
              /\ out.bars[k].color = graphColors[k]
    /\ \A i \in 0..MaxColorIndex :
          BarColor(i) = IF i < 10 THEN graphColors[i + 1] ELSE <<0, 128, 255, 255>>

\* C18 witness: ten series were drawn, each in its own palette color.
C18_Witness ==
    /\ out.done
    /\ Len(out.bars) = maxSeries
    /\ out.bars[maxSeries].color = graphColors[maxSeries]
    /\ \A j, k \in 1..Len(out.bars) :
          j # k => out.bars[j].color # out.bars[k].color

\* no two of the insertions give one (label, date) two different costs
NoConflict ==
    \A i, j \in 1..Len(ins) :
        (ins[i][1] = ins[j][1] /\ ins[i][3] = ins[j][3]) => ins[i][2] = ins[j][2]

====
